---- MODULE Spec2Model ----
(***************************************************************************)
(* Model of the telemetry core of BurnsPrunerTelementary:                  *)
(*   src/logger.py   DataLogger        (the per-run CSV log)               *)
(*   src/replay.py   TelemetryReplayer (replay and ghost replay of a log)  *)
(*   src/main.py     TelemetryBrain.process_data, PrunerDashApp's          *)
(*                   background_worker and on_stop                         *)
(*                                                                         *)
(* Numbers.  Python floats are modelled as decimal floating point values   *)
(* [k, m, e] standing for m * 10^(-e), kept canonical (m carries no        *)
(* trailing zero) and rounded to MantLimit after every operation, the way  *)
(* a binary float is rounded to 53 bits.  k is the Python type ("int" or   *)
(* "float"): it decides how str() prints the value, never its magnitude.   *)
(* Text is a sequence of one-character strings.                            *)
(***************************************************************************)
EXTENDS Integers, Sequences, FiniteSets, Bags, TLC

\* ------------------------------------------------------------------ numbers

\* Mantissas stay below this: four significant decimal digits.
MantLimit == 10^4

\* Digits produced by a division before rounding.
DivShift == 10^5

Abs(x) == IF x < 0 THEN -x ELSE x

Max(a, b) == IF a >= b THEN a ELSE b

Min(a, b) == IF a <= b THEN a ELSE b

\* Integer division rounding half away from zero.
RoundDiv(a, b) ==
  LET q == Abs(a) \div b
      r == Abs(a) % b
      qq == IF 2 * r >= b THEN q + 1 ELSE q
  IN IF a < 0 THEN -qq ELSE qq

RECURSIVE NDigits(_)
\* Number of decimal digits of n >= 0 (0 has none).
NDigits(n) == IF n = 0 THEN 0 ELSE 1 + NDigits(n \div 10)

RECURSIVE Norm(_, _)
\* Canonical mantissa and exponent of m * 10^(-e), rounded to MantLimit.
Norm(m, e) ==
  IF m = 0 THEN [m |-> 0, e |-> 0]
  ELSE IF Abs(m) >= MantLimit THEN Norm(RoundDiv(m, 10), e - 1)
  ELSE IF Abs(m) % 10 = 0 THEN Norm(RoundDiv(m, 10), e - 1)
  ELSE [m |-> m, e |-> e]

\* A Python float m * 10^(-e).
Flt(m, e) == LET n == Norm(m, e) IN [k |-> "float", m |-> n.m, e |-> n.e]

\* A Python int n.
PyInt(n) == LET c == Norm(n, 0) IN [k |-> "int", m |-> c.m, e |-> c.e]

\* float(x) of a number.
ToFloat(x) == [k |-> "float", m |-> x.m, e |-> x.e]

\* Position of the decimal point: x = 0.d1d2.. * 10^Exp10(x).
Exp10(x) == NDigits(Abs(x.m)) - x.e

\* Python's == on numbers: by magnitude, whatever the type.
NumEq(a, b) == a.m = b.m /\ a.e = b.e

LessPos(a, b) ==
  IF a.m = 0 THEN b.m > 0
  ELSE IF b.m = 0 THEN FALSE
  ELSE IF Exp10(a) # Exp10(b) THEN Exp10(a) < Exp10(b)
  ELSE LET E == Max(a.e, b.e)
       IN a.m * 10^(E - a.e) < b.m * 10^(E - b.e)

Neg(a) == [a EXCEPT !.m = -a.m]

\* a < b
Less(a, b) ==
  IF a.m < 0 /\ b.m >= 0 THEN TRUE
  ELSE IF a.m >= 0 /\ b.m < 0 THEN FALSE
  ELSE IF a.m < 0 THEN LessPos(Neg(b), Neg(a))
  ELSE LessPos(a, b)

Leq(a, b) == Less(a, b) \/ NumEq(a, b)

\* Result type of an arithmetic operation on a and b.
Kind(a, b) == IF a.k = "int" /\ b.k = "int" THEN "int" ELSE "float"

\* a + b: an addend more than a mantissa below the other is rounded away.
Add(a, b) ==
  IF a.m = 0 THEN [b EXCEPT !.k = Kind(a, b)]
  ELSE IF b.m = 0 THEN [a EXCEPT !.k = Kind(a, b)]
  ELSE IF Exp10(a) - Exp10(b) > 5 THEN [a EXCEPT !.k = Kind(a, b)]
  ELSE IF Exp10(b) - Exp10(a) > 5 THEN [b EXCEPT !.k = Kind(a, b)]
  ELSE LET E == Max(a.e, b.e)
           n == Norm(a.m * 10^(E - a.e) + b.m * 10^(E - b.e), E)
       IN [k |-> Kind(a, b), m |-> n.m, e |-> n.e]

Sub(a, b) == Add(a, Neg(b))

\* a * b
Mul(a, b) ==
  LET n == Norm(a.m * b.m, a.e + b.e)
  IN [k |-> Kind(a, b), m |-> n.m, e |-> n.e]

\* a / b for b # 0 (true division: always a float).
Div(a, b) ==
  LET sgn == IF b.m < 0 THEN -1 ELSE 1
      pad == 4 - NDigits(Abs(a.m))
      n == Norm(RoundDiv(sgn * a.m * 10^pad * DivShift, Abs(b.m)),
                a.e + pad + 5 - b.e)
  IN [k |-> "float", m |-> n.m, e |-> n.e]

RECURSIVE ISqrtIn(_, _, _)
\* Largest r in lo..hi with r * r <= n.
ISqrtIn(n, lo, hi) ==
  IF lo >= hi THEN lo
  ELSE LET mid == (lo + hi + 1) \div 2
       IN IF mid * mid <= n THEN ISqrtIn(n, mid, hi) ELSE ISqrtIn(n, lo, mid - 1)

\* Square root of a >= 0.
Sqrt(a) ==
  IF a.m <= 0 THEN Flt(0, 0)
  ELSE LET d == NDigits(a.m)
           p0 == 8 - d
           p == IF (a.e + p0) % 2 = 0 THEN p0 ELSE p0 - 1
       IN Flt(ISqrtIn(a.m * 10^p, 0, 46340), (a.e + p) \div 2)

\* --------------------------------------------------------------------- text

DigitChars == <<"0", "1", "2", "3", "4", "5", "6", "7", "8", "9">>

IsDigit(c) == \E d \in 1..10 : DigitChars[d] = c

DigitVal(c) == (CHOOSE d \in 1..10 : DigitChars[d] = c) - 1

RECURSIVE NatStr(_)
\* Decimal digits of n >= 0.
NatStr(n) ==
  IF n < 10 THEN <<DigitChars[n + 1]>>
  ELSE NatStr(n \div 10) \o <<DigitChars[(n % 10) + 1]>>

Zeros(n) == [i \in 1..n |-> "0"]

\* Two-digit exponent of the scientific notation.
ExpStr(x) ==
  (IF x < 0 THEN <<"e", "-">> ELSE <<"e", "+">>)
    \o (IF Abs(x) < 10 THEN <<"0">> ELSE <<>>) \o NatStr(Abs(x))

\* repr() of a non-negative float: the shortest digits that read back as the
\* same float, positional when 1e-4 <= x < 1e16 and scientific otherwise.
FloatRepr(x) ==
  IF x.m = 0 THEN <<"0", ".", "0">>
  ELSE LET D == NatStr(x.m)
           nd == Len(D)
           X == nd - x.e
       IN IF X > -4 /\ X <= 16
          THEN IF X <= 0 THEN <<"0", ".">> \o Zeros(-X) \o D
               ELSE IF X >= nd THEN D \o Zeros(X - nd) \o <<".", "0">>
               ELSE SubSeq(D, 1, X) \o <<".">> \o SubSeq(D, X + 1, nd)
          ELSE <<D[1]>> \o (IF nd > 1 THEN <<".">> \o SubSeq(D, 2, nd) ELSE <<>>)
                 \o ExpStr(X - 1)

\* str() of a number, as csv.writer stringifies a field.
PyStr(v) ==
  LET a == [v EXCEPT !.m = Abs(v.m)]
      body == IF v.k = "int" THEN NatStr(a.m) \o Zeros(-a.e) ELSE FloatRepr(a)
  IN IF v.m < 0 THEN <<"-">> \o body ELSE body

AllDigits(s) == \A i \in 1..Len(s) : IsDigit(s[i])

\* First position of character c in s, 0 when absent.
IndexOf(s, c) ==
  IF \E i \in 1..Len(s) : s[i] = c
  THEN CHOOSE i \in 1..Len(s) : s[i] = c /\ \A j \in 1..(i - 1) : s[j] # c
  ELSE 0

RECURSIVE DigitsVal(_, _, _)
\* Value of the digit string s read after acc: the mantissa is cut at eight
\* digits, the digits dropped are counted in drop.
DigitsVal(s, acc, drop) ==
  IF s = <<>> THEN [m |-> acc, drop |-> drop]
  ELSE IF acc >= 10^8 THEN DigitsVal(Tail(s), acc, drop + 1)
  ELSE DigitsVal(Tail(s), acc * 10 + DigitVal(Head(s)), drop)

\* An optional sign followed by digits.
IsSignedInt(s) ==
  LET t == IF s # <<>> /\ s[1] \in {"+", "-"} THEN Tail(s) ELSE s
  IN t # <<>> /\ AllDigits(t)

SignedIntVal(s) ==
  LET t == IF s[1] \in {"+", "-"} THEN Tail(s) ELSE s
      v == DigitsVal(t, 0, 0).m
  IN IF s[1] = "-" THEN -v ELSE v

\* The parts of a text read as [sign] digits [. digits] [e [sign] digits].
FloatParts(s) ==
  LET u == IF s # <<>> /\ s[1] \in {"+", "-"} THEN Tail(s) ELSE s
      ie == IndexOf(u, "e")
      mant == IF ie = 0 THEN u ELSE SubSeq(u, 1, ie - 1)
      ip == IndexOf(mant, ".")
  IN [neg |-> s # <<>> /\ s[1] = "-",
      expo |-> IF ie = 0 THEN <<"0">> ELSE SubSeq(u, ie + 1, Len(u)),
      whole |-> IF ip = 0 THEN mant ELSE SubSeq(mant, 1, ip - 1),
      frac |-> IF ip = 0 THEN <<>> ELSE SubSeq(mant, ip + 1, Len(mant))]

\* Whether float(s) accepts the text s; it raises ValueError otherwise.
IsFloatText(s) ==
  LET p == FloatParts(s)
  IN /\ AllDigits(p.whole) /\ AllDigits(p.frac)
     /\ Len(p.whole) + Len(p.frac) > 0
     /\ IsSignedInt(p.expo)

\* float(s) of a text that IsFloatText accepts.
ParseFloat(s) ==
  LET p == FloatParts(s)
      d == DigitsVal(p.whole \o p.frac, 0, 0)
      v == Flt(d.m, Len(p.frac) - d.drop - SignedIntVal(p.expo))
  IN IF p.neg THEN Neg(v) ELSE v

\* ------------------------------------------------------------------- bounds

\* Clock ticks per second.
TicksPerSec == 2

\* The clock stops advancing here.
MaxNow == 3

\* process_data calls, over all runs.
MaxCalls == 3

\* TelemetryBrain constructions.
MaxBrains == 2

\* -------------------------------------------------------------------- state

VARIABLES
  now,        \* time.time(), in clock ticks
  files,      \* the file system: path -> file
  logger,     \* the DataLogger of the current run
  brain,      \* the TelemetryBrain of the current run
  produced,   \* the process_data calls of the current run, in call order
  nbrains,    \* TelemetryBrain (and DataLogger) instances constructed so far
  ncalls,     \* process_data calls made so far, over all runs
  writers     \* path -> the DataLogger instances that have written to it

logVars == <<now, files, logger, brain, produced, nbrains, ncalls, writers>>

VARIABLES
  is_playing,     \* TelemetryReplayer.is_playing
  event,          \* TelemetryReplayer._event: a Clock event, NoEvent for None
  data,           \* TelemetryReplayer.data: the rows csv.DictReader read
  current_frame,  \* TelemetryReplayer.current_frame, Unset before a start
  scheduled,      \* the Clock events that call _tick every 0.1 s
  nevents,        \* Clock events created so far
  sink,           \* the lists ui_update was called with, in call order
  sink_base,      \* len(sink) when start_replay last read a file
  written,        \* the records log_sample wrote to the logger's file
  source,         \* the records log_sample had written to the file last read
  last,           \* the last replayer call and what it found
  died            \* an error left a Clock callback: the host's loop ended

replayVars ==
  <<is_playing, event, data, current_frame, scheduled, nevents, sink, sink_base,
    written, source, last, died>>

VARIABLES
  stop_thread,     \* PrunerDashApp.stop_thread
  connection,      \* PrunerDashApp.connection: "None" or the source object "conn"
  is_connected,    \* what the source's is_connected() answers; close() clears it
  latest_metrics,  \* PrunerDashApp.latest_metrics
  worker,          \* where background_worker's thread stands
  stopper,         \* where on_stop stands
  released,        \* who closed the source: "no", "on_stop", "worker"
  ghost            \* the ghost replay of the TelemetryReplayer

appVars ==
  <<stop_thread, connection, is_connected, latest_metrics, worker, stopper,
    released, ghost>>

VARIABLES
  doctor,     \* the last CarDoctor.diagnose call: its argument and its outcome
  extra,      \* the last calculate_extra_metrics call: its argument and result
  live_sink   \* the arguments of the update_ui calls the worker scheduled

uiVars == <<doctor, extra, live_sink>>

VARIABLES
  popup  \* the CalibrationPopup, the settings it saves, its last handler's error

calVars == <<popup>>

vars == <<logVars, replayVars, appVars, uiVars, calVars>>

\* ------------------------------------------------------ logger.py DataLogger

Headers ==
  <<"timestamp", "rpm", "speed", "hp", "torque", "ve", "fuel_rate", "coolant",
    "load", "fuel_total", "stability", "temp_in">>

\* time.time() at clock tick t.
TimeOf(t) == ToFloat(Div(PyInt(t), PyInt(TicksPerSec)))

\* os.path.join(base_dir, f"run_log_{int(time.time())}.csv")
RunLogPath(t) == <<"run_log", t \div TicksPerSec>>

\* Other files of the log directory.
OtherPaths == {<<"other", 1>>}

Paths == {RunLogPath(t) : t \in 0..MaxNow} \cup OtherPaths

NoFile == [exists |-> FALSE, header |-> <<>>, rows |-> <<>>]

\* open(path, "w") followed by writer.writerow(headers).
CreateFile(fs, path, header) ==
  [fs EXCEPT ![path] = [exists |-> TRUE, header |-> header, rows |-> <<>>]]

\* A log that puts the new row before the earlier ones.
AppendRowMutFront(fs, path, row) ==
  [fs EXCEPT ![path] = [exists |-> TRUE, header |-> @.header, rows |-> <<row>> \o @.rows]]

\* open(path, "a") followed by writer.writerow(row); a file that is not there
\* is created by the open.
AppendRow(fs, path, row) ==
  [fs EXCEPT ![path] = [exists |-> TRUE, header |-> @.header, rows |-> Append(@.rows, row)]]

\* DataLogger.__init__ at clock tick t: the logger and the file system after it.
DataLoggerInit(fs, t) ==
  [logger |-> [filepath |-> RunLogPath(t), headers |-> Headers],
   files |-> CreateFile(fs, RunLogPath(t), Headers)]

\* A log_sample that puts the timestamp after the metrics.
LogRowStampLast(metrics, t) ==
  IF Len(metrics) >= 11 THEN metrics \o <<TimeOf(t)>>
  ELSE metrics \o <<Flt(25, 0)>> \o <<TimeOf(t)>>

\* The row log_sample builds for metrics at clock tick t.
LogRow(metrics, t) ==
  IF Len(metrics) >= 11 THEN <<TimeOf(t)>> \o metrics
  ELSE <<TimeOf(t)>> \o metrics \o <<Flt(25, 0)>>

\* csv.writer's text of a row.
RowText(row) == [i \in 1..Len(row) |-> PyStr(row[i])]

\* DataLogger.log_sample(metrics) at clock tick t; ioerror: the open or the
\* write raises, which log_sample catches and prints.
LogSample(fs, lg, metrics, t, ioerror) ==
  IF ioerror THEN fs ELSE AppendRow(fs, lg.filepath, RowText(LogRow(metrics, t)))

\* ------------------------------------------------- main.py TelemetryBrain

\* The empty value of perf_start_time (None).
NoTime == 0 - 1

\* len(self.rpm_bins): np.arange(0, 7501, 250)
RpmBins == 31

\* len(self.load_bins): np.arange(0, 101, 5)
LoadBins == 21

\* The longest trim window.
TrimWindowMax == 40

\* An OBD response: null, or a value with its magnitude.
NullReading == [null |-> TRUE, v |-> PyInt(0)]

Reading(v) == [null |-> FALSE, v |-> v]

\* r.value.magnitude if not r.is_null() else dflt
ValueOr(r, dflt) == IF r.null THEN dflt ELSE r.v

\* TelemetryBrain.__init__ without its DataLogger().
BrainInit(displacement) ==
  [displacement |-> displacement,
   cum_fuel |-> PyInt(0),
   perf_running |-> FALSE,
   perf_start_time |-> NoTime,
   leaderboard |-> <<>>,
   logging_active |-> TRUE,
   connection |-> "None",
   trim_window |-> <<>>,
   fuel_map |-> [c \in {} |-> Flt(0, 0)]]

\* floor(x) of a number x >= 0.
FloorNat(x) == IF x.e <= 0 THEN x.m * 10^(-x.e) ELSE x.m \div 10^(x.e)

\* np.digitize(x, np.arange(0, n * step, step)): the number of bin edges <= x.
Digitize(x, step, n) ==
  IF x.m < 0 THEN 0
  ELSE IF Leq(PyInt(n * step), x) THEN n
  ELSE (FloorNat(x) \div step) + 1

RECURSIVE SumFrom(_, _)
\* The sum of xs[1..st.i] and st.acc, added from the last element to the first.
SumFrom(xs, st) ==
  IF st.i = 0 THEN st.acc
  ELSE SumFrom(xs, [i |-> st.i - 1, acc |-> Add(xs[st.i], st.acc)])

\* The sum of the numbers xs.
SumSeq(xs) == SumFrom(xs, [i |-> Len(xs), acc |-> PyInt(0)])

\* np.std(xs): the population standard deviation.
Std(xs) ==
  LET n == PyInt(Len(xs))
      mean == Div(SumSeq(xs), n)
      sq == [i \in 1..Len(xs) |-> Mul(Sub(xs[i], mean), Sub(xs[i], mean))]
  IN Sqrt(Div(SumSeq(sq), n))

RECURSIVE InsertSorted(_, _)
InsertSorted(x, xs) ==
  IF xs = <<>> THEN <<x>>
  ELSE IF Less(x, Head(xs)) THEN <<x>> \o xs
  ELSE <<Head(xs)>> \o InsertSorted(x, Tail(xs))

\* A leaderboard kept in arrival order.
Unsorted(xs) == xs

RECURSIVE Sorted(_)
\* sorted(xs)
Sorted(xs) == IF xs = <<>> THEN <<>> ELSE InsertSorted(Head(xs), Sorted(Tail(xs)))

\* xs[-n:], the last n elements.
TakeLast(xs, n) == SubSeq(xs, IF Len(xs) < n THEN 1 ELSE Len(xs) - n + 1, Len(xs))

\* xs[:n]
Take(xs, n) == SubSeq(xs, 1, IF Len(xs) < n THEN Len(xs) ELSE n)

\* self.fuel_map[l_idx, r_idx]; the map holds the cells written so far, every
\* other cell being the 0 of np.zeros.
FuelMapAt(fm, l_idx, r_idx) ==
  IF <<l_idx, r_idx>> \in DOMAIN fm THEN fm[<<l_idx, r_idx>>] ELSE Flt(0, 0)

\* A fuel map that averages the new rate with the cell's old value.
FuelMapAverages(fm, l_idx, r_idx, v) ==
  [c \in (DOMAIN fm) \cup {<<l_idx, r_idx>>} |->
     IF c = <<l_idx, r_idx>> THEN Div(Add(FuelMapAt(fm, l_idx, r_idx), v), PyInt(2))
     ELSE fm[c]]

\* self.fuel_map[l_idx, r_idx] = v
FuelMapSet(fm, l_idx, r_idx, v) ==
  [c \in (DOMAIN fm) \cup {<<l_idx, r_idx>>} |->
     IF c = <<l_idx, r_idx>> THEN v ELSE fm[c]]

\* The seven readings of one call, null ones replaced (main.py 120-126).
Extract(frame) ==
  [rpm |-> ValueOr(frame.rpm, PyInt(0)),
   speed |-> ValueOr(frame.speed, PyInt(0)),
   maf |-> ValueOr(frame.maf, PyInt(0)),
   coolant |-> ValueOr(frame.coolant, PyInt(0)),
   load |-> ValueOr(frame.load, PyInt(0)),
   trim |-> ValueOr(frame.fuel_trim, PyInt(0)),
   intake |-> ValueOr(frame.intake_temp, PyInt(0))]

\* hp = maf * 1.32
Hp(maf) == Mul(maf, Flt(132, 2))

\* A torque that divides from rpm 500 on.
TorqueFrom500(hp, rpm) ==
  IF Leq(PyInt(500), rpm) THEN Div(Mul(hp, PyInt(7127)), rpm) ELSE PyInt(0)

\* torque = (hp * 7127) / rpm if rpm > 500 else 0
Torque(hp, rpm) ==
  IF Less(PyInt(500), rpm) THEN Div(Mul(hp, PyInt(7127)), rpm) ELSE PyInt(0)

\* 273.15 + intake
Kelvin(intake) == Add(Flt(27315, 2), intake)

\* density = 1.225 * 288.15 / kelvin
Density(kelvin) == Div(Mul(Flt(1225, 3), Flt(28815, 2)), kelvin)

\* theoretical_flow = (rpm * (self.displacement/1000) * density) / 120 * 1000
TheoreticalFlow(rpm, displacement, density) ==
  Mul(Div(Mul(Mul(rpm, Div(displacement, PyInt(1000))), density), PyInt(120)),
      PyInt(1000))

\* ve = (maf / theoretical_flow) * 100 if rpm > 400, else 0
Ve(maf, rpm, flow) ==
  IF Less(PyInt(400), rpm) THEN Mul(Div(maf, flow), PyInt(100)) ELSE PyInt(0)

\* fuel_rate = (maf * 3600) / (14.7 * 740)
FuelRate(maf) == Div(Mul(maf, PyInt(3600)), Mul(Flt(147, 1), PyInt(740)))

\* A cumulative fuel integrated over one second per call.
CumFuelPerSecond(cum_fuel, fuel_rate) == Add(cum_fuel, Div(fuel_rate, PyInt(3600)))

\* self.cum_fuel += fuel_rate * 0.1 / 3600
CumFuel(cum_fuel, fuel_rate) ==
  Add(cum_fuel, Div(Mul(fuel_rate, Flt(1, 1)), PyInt(3600)))

\* A window that makes room by dropping its newest sample.
WindowDropsNewest(trim_window, trim) ==
  IF Len(trim_window) + 1 > TrimWindowMax
  THEN Append(SubSeq(trim_window, 1, Len(trim_window) - 1), trim)
  ELSE Append(trim_window, trim)

\* self.trim_window.append(trim), the oldest sample popped beyond the maximum.
Window(trim_window, trim) ==
  IF Len(trim_window) + 1 > TrimWindowMax
  THEN Append(Tail(trim_window), trim) ELSE Append(trim_window, trim)

\* A stability computed from the fifth sample on.
StabilityFromFive(window) == IF Len(window) > 4 THEN Std(window) ELSE PyInt(0)

\* stability = np.std(self.trim_window) if len(self.trim_window) > 5 else 0
Stability(window) == IF Len(window) > 5 THEN Std(window) ELSE PyInt(0)

\* A timer that starts on every frame in the band, a run in progress or not.
PerfRestarts(br, speed) == Less(PyInt(2), speed) /\ Less(speed, PyInt(8))

\* not self.perf_running and 2 < speed < 8
PerfStarts(br, speed) ==
  ~br.perf_running /\ Less(PyInt(2), speed) /\ Less(speed, PyInt(8))

\* elif self.perf_running and speed >= 100
PerfEnds(br, speed) == br.perf_running /\ Leq(PyInt(100), speed)

\* The 0-100 timer of process_data at clock tick t (main.py 155-162).
PerfTimer(br, starts, ends, t) ==
  IF starts THEN [br EXCEPT !.perf_running = TRUE, !.perf_start_time = t]
  ELSE IF ends
  THEN [br EXCEPT
          !.leaderboard =
             Take(Sorted(Append(@, Div(PyInt(t - br.perf_start_time),
                                       PyInt(TicksPerSec)))), 3),
          !.perf_running = FALSE]
  ELSE br

\* A fuel-map update without the check of the indices: numpy counts a
\* negative index from the end.
FuelMapLearnWraps(fm, r_idx, l_idx, fuel_rate) ==
  FuelMapSet(fm, l_idx % LoadBins, r_idx % RpmBins, fuel_rate)

\* The fuel map after process_data's update for (rpm, load) (main.py 165-170).
FuelMapLearn(fm, r_idx, l_idx, fuel_rate) ==
  IF 0 <= r_idx /\ r_idx < RpmBins /\ 0 <= l_idx /\ l_idx < LoadBins
  THEN FuelMapSet(fm, l_idx, r_idx, fuel_rate) ELSE fm

\* A process_data that divides by the theoretical flow at every rpm.
RaisesOnAnyRpm(br, intake_null, rpm, kelvin, flow) ==
  IF ~intake_null /\ br.connection = "None" THEN "AttributeError"
  ELSE IF kelvin.m = 0 THEN "ZeroDivisionError"
  ELSE IF flow.m = 0 THEN "ZeroDivisionError"
  ELSE "none"

\* The error process_data raises on the extracted readings x, "none" if it
\* raises none; every raise comes before the first change of state.  Line 127
\* queries self.connection, the brain's own attribute, when intake is not null.
RaisesOn(br, intake_null, rpm, kelvin, flow) ==
  IF ~intake_null /\ br.connection = "None" THEN "AttributeError"
  ELSE IF kelvin.m = 0 THEN "ZeroDivisionError"
  ELSE IF Less(PyInt(400), rpm) /\ flow.m = 0 THEN "ZeroDivisionError"
  ELSE "none"

RaisesAt(br, intake_null, x, kelvin) ==
  RaisesOn(br, intake_null, x.rpm, kelvin,
           IF kelvin.m = 0 THEN kelvin
           ELSE TheoreticalFlow(x.rpm, br.displacement, Density(kelvin)))

Raises(br, frame) ==
  RaisesAt(br, frame.intake_temp.null, Extract(frame), Kelvin(Extract(frame).intake))

\* The state process_data leaves and the record it returns, from the values
\* it calculated.
Outcome(br, x, temp_in, t, hp, flow, fuel_rate, cum_fuel, window) ==
  [brain |->
     [PerfTimer(br, PerfStarts(br, x.speed), PerfEnds(br, x.speed), t) EXCEPT
        !.cum_fuel = cum_fuel,
        !.trim_window = window,
        !.fuel_map = FuelMapLearn(@, Digitize(x.rpm, 250, RpmBins) - 1,
                                  Digitize(x.load, 5, LoadBins) - 1, fuel_rate)],
   metrics |-> <<x.rpm, x.speed, hp, Torque(hp, x.rpm), Ve(x.maf, x.rpm, flow),
                 fuel_rate, x.coolant, x.load, cum_fuel, Stability(window), temp_in>>]

Calculate(br, x, temp_in, t, fuel_rate) ==
  Outcome(br, x, temp_in, t, Hp(x.maf),
          TheoreticalFlow(x.rpm, br.displacement, Density(Kelvin(x.intake))),
          fuel_rate, CumFuel(br.cum_fuel, fuel_rate), Window(br.trim_window, x.trim))

\* The calculations of process_data on a frame that raises nothing, at clock
\* tick t: the new brain and the record current_metrics (main.py 120-172).
Compute(br, frame, t) ==
  Calculate(br, Extract(frame), ValueOr(frame.intake_temp, PyInt(25)), t,
            FuelRate(Extract(frame).maf))

\* if self.logging_active and rpm > 0
ShouldLog(br, metrics) == br.logging_active /\ Less(PyInt(0), metrics[1])

\* ------------------------------------------- the metric engine and its log

\* Engine displacements the host configures, in litres.
Displacements == {Flt(2, 0)}

Frame(rpm, speed, maf, coolant, load, fuel_trim, intake_temp) ==
  [rpm |-> rpm, speed |-> speed, maf |-> maf, coolant |-> coolant, load |-> load,
   fuel_trim |-> fuel_trim, intake_temp |-> intake_temp]

\* Frames a source answers with.
Frames ==
  { Frame(Reading(Flt(1000, 0)), Reading(Flt(5, 0)), Reading(Flt(110, 0)),
          Reading(Flt(90, 0)), Reading(Flt(40, 0)), Reading(Flt(15, 1)), NullReading),
    Frame(Reading(Flt(4000, 0)), Reading(Flt(100, 0)), Reading(Flt(110, 0)),
          Reading(Flt(60, 0)), Reading(Flt(20, 0)), Reading(Flt(-25, 1)), NullReading),
    Frame(Reading(Flt(0, 0)), Reading(Flt(0, 0)), Reading(Flt(0, 0)),
          Reading(Flt(90, 0)), Reading(Flt(0, 0)), Reading(Flt(0, 0)), NullReading),
    Frame(NullReading, NullReading, NullReading, NullReading, NullReading,
          NullReading, NullReading),
    Frame(Reading(Flt(1000, 0)), Reading(Flt(5, 0)), Reading(Flt(110, 0)),
          Reading(Flt(90, 0)), Reading(Flt(40, 0)), Reading(Flt(15, 1)),
          Reading(Flt(25, 0))),
    Frame(Reading(Flt(1249, 0)), Reading(Flt(5, 0)), Reading(Flt(55, 0)),
          Reading(Flt(90, 0)), Reading(Flt(44, 0)), Reading(Flt(15, 1)), NullReading) }

\* The connection argument of process_data: no object, a source that is not
\* connected, a connected source.
Connections == {"None", "down", "up"}

\* [0]*10
TenZeros == [i \in 1..10 |-> PyInt(0)]

\* One process_data call as recorded in produced.
Call(conn, frame, raised, ret, logged, wrote) ==
  [conn |-> conn, frame |-> frame, raised |-> raised, ret |-> ret,
   logged |-> logged, wrote |-> wrote]

\* TelemetryBrain(displacement): a new engine with its own DataLogger().
TelemetryBrainInit(displacement) ==
  /\ nbrains < MaxBrains
  /\ \E t \in now..Min(now + 1, MaxNow) :
       LET made == DataLoggerInit(files, t)
       IN /\ now' = t
          /\ logger' = made.logger
          /\ files' = made.files
          /\ writers' = [writers EXCEPT ![made.logger.filepath] = @ \cup {nbrains + 1}]
  /\ brain' = BrainInit(displacement)
  /\ produced' = <<>>
  /\ nbrains' = nbrains + 1
  /\ UNCHANGED <<ncalls, replayVars>>

\* A process_data without the check of its connection: the readings being
\* absent, a fuel trim of 0 enters the window.
ProcessDataUnchecked(conn) ==
  /\ ncalls < MaxCalls
  /\ ncalls' = ncalls + 1
  /\ conn # "up"
  /\ brain' = [brain EXCEPT !.trim_window = Window(@, PyInt(0))]
  /\ produced' = Append(produced,
                        Call(conn, Frame(NullReading, NullReading, NullReading,
                                         NullReading, NullReading, NullReading,
                                         NullReading),
                             "none", TenZeros, FALSE, FALSE))
  /\ UNCHANGED <<now, files, logger, nbrains, writers, replayVars>>

\* process_data(connection) when the source is absent or not connected.
ProcessDataOffline(conn) ==
  /\ ncalls < MaxCalls
  /\ ncalls' = ncalls + 1
  /\ conn # "up"
  /\ produced' = Append(produced,
                        Call(conn, Frame(NullReading, NullReading, NullReading,
                                         NullReading, NullReading, NullReading,
                                         NullReading),
                             "none", TenZeros, FALSE, FALSE))
  /\ UNCHANGED <<now, files, logger, brain, nbrains, writers, replayVars>>

\* process_data(connection) on a connected source that answers frame, when the
\* call raises.
ProcessDataRaise(frame) ==
  /\ ncalls < MaxCalls
  /\ ncalls' = ncalls + 1
  /\ Raises(brain, frame) # "none"
  /\ produced' = Append(produced,
                        Call("up", frame, Raises(brain, frame), <<>>, FALSE, FALSE))
  /\ UNCHANGED <<now, files, logger, brain, nbrains, writers, replayVars>>

\* A process_data whose log_sample lets the error of the write out: the call
\* raises it in place of returning its record.
CommitRaises(frame, c, logged, t, ioerror) ==
  /\ logged \/ ~ioerror
  /\ now' = t
  /\ brain' = c.brain
  /\ files' = IF logged THEN LogSample(files, logger, c.metrics, t, ioerror) ELSE files
  /\ writers' = IF logged /\ ~ioerror
                THEN [writers EXCEPT ![logger.filepath] = @ \cup {nbrains}]
                ELSE writers
  /\ produced' = Append(produced,
                        IF ioerror THEN Call("up", frame, "OSError", <<>>, logged, FALSE)
                        ELSE Call("up", frame, "none", c.metrics, logged, logged))

\* The end of a process_data call that calculated c: the row is logged when
\* logged, unless the file system refuses the write (ioerror).
Commit(frame, c, logged, t, ioerror) ==
  /\ logged \/ ~ioerror
  /\ now' = t
  /\ brain' = c.brain
  /\ files' = IF logged THEN LogSample(files, logger, c.metrics, t, ioerror) ELSE files
  /\ writers' = IF logged /\ ~ioerror
                THEN [writers EXCEPT ![logger.filepath] = @ \cup {nbrains}]
                ELSE writers
  /\ produced' = Append(produced,
                        Call("up", frame, "none", c.metrics, logged, logged /\ ~ioerror))

Finish(frame, c, t, ioerror) ==
  Commit(frame, c, ShouldLog(brain, c.metrics), t, ioerror)

\* process_data(connection) on a connected source that answers frame.
ProcessData(frame) ==
  /\ ncalls < MaxCalls
  /\ ncalls' = ncalls + 1
  /\ Raises(brain, frame) = "none"
  /\ \E t \in now..Min(now + 1, MaxNow), ioerror \in BOOLEAN :
       Finish(frame, Compute(brain, frame, t), t, ioerror)
  /\ UNCHANGED <<logger, nbrains, replayVars>>

\* ------------------------------------------- replay.py TelemetryReplayer

\* Clock events start_replay may create.
MaxEvents == 2

\* Rows written to one log.
MaxRows == 2

\* self._event = None
NoEvent == 0

\* An attribute no statement has assigned yet.
Unset == 0 - 1

\* A field of a row csv.DictReader read: a text, or None for a field the row
\* is too short to hold.
Cell(text) == [none |-> FALSE, text |-> text]

NoneCell == [none |-> TRUE, text |-> <<>>]

Range(xs) == {xs[i] : i \in 1..Len(xs)}

\* The first column of header named name.
ColumnOf(header, name) == CHOOSE i \in 1..Len(header) : header[i] = name /\ \A j \in 1..(i - 1) : header[j] # name

\* The dict csv.DictReader makes of a row under header: the fields by column
\* name, None (restval) for the columns a short row lacks.
DictRow(header, row) ==
  [name \in Range(header) |->
     IF ColumnOf(header, name) <= Len(row) THEN Cell(row[ColumnOf(header, name)])
     ELSE NoneCell]

\* list(csv.DictReader(f)): the first line is the header, blank lines are
\* skipped, a file without lines reads as no rows.
DictReader(file) ==
  LET rows == SelectSeq(file.rows, LAMBDA r : r # <<>>)
  IN [i \in 1..Len(rows) |-> DictRow(file.header, rows[i])]

\* The error float(row.get(name, dflt)) raises: get answers dflt only when the
\* row has no such key, so the None of a short row reaches float().
FloatGetError(row, name) ==
  IF name \notin DOMAIN row THEN "none"
  ELSE IF row[name].none THEN "TypeError"
  ELSE IF ~IsFloatText(row[name].text) THEN "ValueError"
  ELSE "none"

\* float(row.get(name, dflt)) when it raises nothing.
FloatGet(row, name, dflt) ==
  IF name \notin DOMAIN row THEN ToFloat(dflt) ELSE ParseFloat(row[name].text)

\* The columns _tick reads, in the order of metrics_list.
TickColumns ==
  <<"rpm", "speed", "hp", "torque", "ve", "fuel_rate", "coolant", "load",
    "fuel_total", "stability", "temp_in">>

\* row.get's default for a column: 25 for temp_in, 0 for the others.
DefaultOf(name) == IF name = "temp_in" THEN PyInt(25) ELSE PyInt(0)

\* Whether building metrics_list from row raises.
TickRaises(row) == \E i \in 1..Len(TickColumns) : FloatGetError(row, TickColumns[i]) # "none"

\* metrics_list of _tick for a row.
MetricsList(row) ==
  [i \in 1..Len(TickColumns) |-> FloatGet(row, TickColumns[i], DefaultOf(TickColumns[i]))]

\* TelemetryReplayer.__init__
ReplayerInit ==
  /\ is_playing = FALSE
  /\ event = NoEvent
  /\ data = <<>>
  /\ current_frame = Unset
  /\ scheduled = {}
  /\ nevents = 0
  /\ sink = <<>>
  /\ sink_base = 0
  /\ written = <<>>
  /\ source = <<>>
  /\ last = [op |-> "init", was_playing |-> FALSE, own |-> FALSE]
  /\ died = FALSE

\* start_replay(file_path) on a file open() cannot read: data is emptied and
\* the error printed.
StartReplayFails(path) ==
  /\ ~died
  /\ ~files[path].exists
  /\ data' = <<>>
  /\ source' = <<>>
  /\ last' = [op |-> "start_failed", was_playing |-> is_playing, own |-> FALSE]
  /\ UNCHANGED <<is_playing, event, current_frame, scheduled, nevents, sink,
                 sink_base, written, died>>

\* start_replay(file_path) on a readable file.
StartReplay(path) ==
  /\ ~died
  /\ files[path].exists
  /\ nevents < MaxEvents
  /\ data' = DictReader(files[path])
  /\ current_frame' = 0
  /\ is_playing' = TRUE
  /\ nevents' = nevents + 1
  /\ event' = nevents + 1
  /\ scheduled' = scheduled \cup {nevents + 1}
  /\ sink_base' = Len(sink)
  /\ source' = IF path = logger.filepath THEN written ELSE <<>>
  /\ last' = [op |-> "start_replay", was_playing |-> is_playing,
              own |-> path = logger.filepath]
  /\ UNCHANGED <<sink, written, died>>

\* The fields of the replayer that stop_replay reads or writes.
Replayer ==
  [is_playing |-> is_playing, event |-> event, data |-> data,
   current_frame |-> current_frame, scheduled |-> scheduled]

\* A stop_replay that leaves the tick event scheduled.
StopReplayKeepsEvent(r) == [r EXCEPT !.is_playing = FALSE]

\* stop_replay() on replayer r: is_playing is cleared, and the event of the
\* last start, if there is one, is unscheduled.
StopReplayOn(r) ==
  [r EXCEPT !.is_playing = FALSE,
            !.scheduled = IF r.event # NoEvent THEN @ \ {r.event} ELSE @]

\* The replayer becomes r.
Becomes(r) ==
  /\ is_playing' = r.is_playing
  /\ event' = r.event
  /\ data' = r.data
  /\ current_frame' = r.current_frame
  /\ scheduled' = r.scheduled

\* stop_replay()
StopReplay ==
  /\ ~died
  /\ Becomes(StopReplayOn(Replayer))
  /\ last' = [last EXCEPT !.op = "stop_replay", !.was_playing = is_playing]
  /\ UNCHANGED <<nevents, sink, sink_base, written, source, died>>

\* _tick(dt) called by Clock event e: the next row goes to ui_update, or the
\* replay stops itself at the end of data; a row float() rejects raises out
\* of the callback.
Tick(e) ==
  /\ ~died
  /\ e \in scheduled
  /\ IF current_frame < Len(data)
     THEN IF TickRaises(data[current_frame + 1])
          THEN /\ died' = TRUE
               /\ last' = [last EXCEPT !.op = "tick_raised", !.was_playing = is_playing]
               /\ UNCHANGED <<is_playing, event, data, scheduled, sink, current_frame>>
          ELSE /\ sink' = Append(sink, MetricsList(data[current_frame + 1]))
               /\ current_frame' = current_frame + 1
               /\ last' = [last EXCEPT !.op = "tick", !.was_playing = is_playing]
               /\ UNCHANGED <<is_playing, event, data, scheduled, died>>
     ELSE /\ Becomes(StopReplayOn(Replayer))
          /\ last' = [last EXCEPT !.op = "tick_end", !.was_playing = is_playing]
          /\ UNCHANGED <<sink, died>>
  /\ UNCHANGED <<nevents, sink_base, written, source>>

\* ------------------------------------------- main.py CarDoctor

\* A severity no call returned.
NoSeverity == 0 - 1

\* Whether diagnose(metrics) raises: the record is unpacked into eleven names.
DiagnoseRaises(metrics) == Len(metrics) # 11

\* A diagnose whose cold-engine rule ignores rpm.
DiagnoseColdOnly(rpm, speed, coolant, load, stability) ==
  IF Less(coolant, PyInt(70))
  THEN [advice |-> "Engine Cold: Limit RPM < 3000", severity |-> 1]
  ELSE IF Less(PyInt(105), coolant)
  THEN [advice |-> "OVERHEATING: Check Airflow / Coolant", severity |-> 2]
  ELSE IF Less(PyInt(80), speed) /\ Less(load, PyInt(30)) /\ Less(PyInt(3000), rpm)
  THEN [advice |-> "Shift Up to Save Fuel", severity |-> 0]
  ELSE IF Less(speed, PyInt(5)) /\ Less(Flt(30, 1), stability)
  THEN [advice |-> "Rough Idle Detected: Check Spark/Fuel", severity |-> 1]
  ELSE [advice |-> "System Normal", severity |-> 0]

\* The if/elif chain of diagnose on the fields it reads.
DiagnoseOn(rpm, speed, coolant, load, stability) ==
  IF Less(coolant, PyInt(70))
  THEN IF Less(PyInt(3500), rpm)
       THEN [advice |-> "CRITICAL: HIGH RPM ON COLD ENGINE!", severity |-> 2]
       ELSE [advice |-> "Engine Cold: Limit RPM < 3000", severity |-> 1]
  ELSE IF Less(PyInt(105), coolant)
  THEN [advice |-> "OVERHEATING: Check Airflow / Coolant", severity |-> 2]
  ELSE IF Less(PyInt(80), speed) /\ Less(load, PyInt(30)) /\ Less(PyInt(3000), rpm)
  THEN [advice |-> "Shift Up to Save Fuel", severity |-> 0]
  ELSE IF Less(speed, PyInt(5)) /\ Less(Flt(30, 1), stability)
  THEN [advice |-> "Rough Idle Detected: Check Spark/Fuel", severity |-> 1]
  ELSE [advice |-> "System Normal", severity |-> 0]

\* CarDoctor.diagnose(metrics) for a record of eleven fields.
Diagnose(metrics) ==
  DiagnoseOn(metrics[1], metrics[2], metrics[7], metrics[8], metrics[10])

\* ------------------------------------------- engine_data.py

\* A mileage that is computed from speed 5 on.
CalculateExtraMetricsFrom5(metrics) ==
  [l_100km |-> IF Leq(PyInt(5), metrics[2]) /\ Less(PyInt(0), metrics[6])
               THEN Mul(Div(metrics[6], metrics[2]), PyInt(100)) ELSE PyInt(0),
   hp_per_tonne |-> Div(metrics[3], Flt(15, 1))]

\* calculate_extra_metrics(metrics)
CalculateExtraMetrics(metrics) ==
  [l_100km |-> IF Less(PyInt(5), metrics[2]) /\ Less(PyInt(0), metrics[6])
               THEN Mul(Div(metrics[6], metrics[2]), PyInt(100)) ELSE PyInt(0),
   hp_per_tonne |-> Div(metrics[3], Flt(15, 1))]

\* calculate_extra_metrics(metrics): it reads its argument only.
ExtraCall(metrics) ==
  /\ extra' = [called |-> TRUE, metrics |-> metrics, ret |-> CalculateExtraMetrics(metrics)]
  /\ UNCHANGED <<logVars, replayVars, appVars, calVars, doctor, live_sink>>

\* No diagnose call yet.
UiInit ==
  /\ doctor = [called |-> FALSE, metrics |-> <<>>, raised |-> "none",
               advice |-> "", severity |-> NoSeverity]
  /\ extra = [called |-> FALSE, metrics |-> <<>>,
              ret |-> [l_100km |-> PyInt(0), hp_per_tonne |-> PyInt(0)]]
  /\ live_sink = <<>>

\* diagnose(metrics): a static method, it reads its argument only.
DiagnoseCall(metrics) ==
  /\ doctor' = IF DiagnoseRaises(metrics)
               THEN [called |-> TRUE, metrics |-> metrics, raised |-> "ValueError",
                     advice |-> "", severity |-> NoSeverity]
               ELSE [called |-> TRUE, metrics |-> metrics, raised |-> "none",
                     advice |-> Diagnose(metrics).advice,
                     severity |-> Diagnose(metrics).severity]
  /\ UNCHANGED <<logVars, replayVars, appVars, calVars, extra, live_sink>>

\* ------------------------------------------- calibration.py CalibrationPopup

\* self.cc_input.text = "Error"
ErrorText == <<"E", "r", "r", "o", "r">>

\* Texts of the cc field: what the user types in it or the selected car sets.
CcTexts == {<<"0">>, <<>>}

\* The settings build() found ('engine' of car_settings.json, the last car of
\* the database, system_state) and no popup open.
CalInit ==
  popup = [open |-> FALSE, cc_input |-> <<"2", "0", "0", "0">>, engine |-> PyInt(2000),
           last_cc |-> Flt(2000, 0), active_cc |-> Flt(2, 0), raised |-> "none"]

\* open_settings: CalibrationPopup(self.brain, self.db).open(), the cc field
\* showing the saved 'engine' setting.
OpenSettings ==
  /\ ~popup.open
  /\ popup' = [popup EXCEPT !.open = TRUE, !.cc_input = PyStr(popup.engine),
                            !.raised = "none"]
  /\ UNCHANGED <<logVars, replayVars, appVars, uiVars>>

\* enable_edit and the text typed then, or on_car_select's text.
EnterCc(text) ==
  /\ popup.open
  /\ popup' = [popup EXCEPT !.cc_input = text]
  /\ UNCHANGED <<logVars, replayVars, appVars, uiVars>>

\* save_and_close: int(text) raising ValueError leaves "Error" in the field;
\* otherwise the displacement of the brain is set, the setting stored and the
\* popup dismissed.
SaveAndClose ==
  /\ popup.open
  /\ IF IsSignedInt(popup.cc_input)
     THEN /\ brain' = [brain EXCEPT !.displacement =
                         Div(PyInt(SignedIntVal(popup.cc_input)), PyInt(1000))]
          /\ popup' = [popup EXCEPT !.engine = PyInt(SignedIntVal(popup.cc_input)),
                                    !.open = FALSE]
     ELSE /\ popup' = [popup EXCEPT !.cc_input = ErrorText]
          /\ brain' = brain
  /\ UNCHANGED <<now, files, logger, produced, nbrains, ncalls, writers,
                 replayVars, appVars, uiVars>>

\* new_cc of save_and_apply: float(text), 2000 when it raises ValueError.
NewCc(text) == IF IsFloatText(text) THEN ParseFloat(text) ELSE PyInt(2000)

\* save_and_apply: the car is saved, the displacement of the brain and the
\* active_cc of system_state are set; with an adapter, update_ve_table, which
\* TelemetryBrain does not have, raises AttributeError before the dismiss.
SaveAndApply(has_adapter) ==
  /\ popup.open
  /\ brain' = [brain EXCEPT !.displacement = Div(NewCc(popup.cc_input), PyInt(1000))]
  /\ popup' = [popup EXCEPT !.last_cc = NewCc(popup.cc_input),
                            !.active_cc = Div(NewCc(popup.cc_input), PyInt(1000)),
                            !.raised = IF has_adapter THEN "AttributeError" ELSE "none",
                            !.open = has_adapter]
  /\ UNCHANGED <<now, files, logger, produced, nbrains, ncalls, writers,
                 replayVars, appVars, uiVars>>

\* ------------------------------------------- main.py PrunerDashApp

\* No path.
NoPath == <<"none", 0>>

\* [0]*11
ElevenZeros == [i \in 1..11 |-> PyInt(0)]

\* The frame of a source that answers every query with a null response.
NullFrame ==
  Frame(NullReading, NullReading, NullReading, NullReading, NullReading,
        NullReading, NullReading)

\* The application after build(), with the source object src ("None" for no
\* object) answering up to is_connected(), and a replayer whose ghost replay
\* has not been started.
AppInit(src, up) ==
  /\ stop_thread = FALSE
  /\ connection = src
  /\ is_connected = up
  /\ latest_metrics = ElevenZeros
  /\ worker = "while"
  /\ stopper = "idle"
  /\ released = "no"
  /\ ghost = [callback |-> "None", file |-> NoPath, n |-> 0, current_index |-> Unset,
              scheduled |-> FALSE, sink |-> <<>>, raised |-> "none"]

Init ==
  /\ now = 0
  /\ \E d \in Displacements : brain = BrainInit(d)
  /\ logger = DataLoggerInit([p \in Paths |-> NoFile], 0).logger
  /\ files = DataLoggerInit([p \in Paths |-> NoFile], 0).files
  /\ produced = <<>>
  /\ nbrains = 1
  /\ ncalls = 0
  /\ writers = [p \in Paths |-> IF p = RunLogPath(0) THEN {1} ELSE {}]
  /\ ReplayerInit
  /\ AppInit("None", FALSE)
  /\ UiInit
  /\ CalInit

Next ==
  \/ \E d \in Displacements : TelemetryBrainInit(d) /\ UNCHANGED <<appVars, uiVars, calVars>>
  \/ \E conn \in Connections : ProcessDataOffline(conn) /\ UNCHANGED <<appVars, uiVars, calVars>>
  \/ \E frame \in Frames : ProcessDataRaise(frame) /\ UNCHANGED <<appVars, uiVars, calVars>>
  \/ \E frame \in Frames : ProcessData(frame) /\ UNCHANGED <<appVars, uiVars, calVars>>

Spec == Init /\ [][Next]_vars

\* The calls of the current run whose record reached the log, in the order
\* process_data produced them.
Logged == SelectSeq(produced, LAMBDA c : c.wrote)

\* The rows of the current run's log after the header.
LogRows == files[logger.filepath].rows

\* Row holds, after its timestamp, the numbers of record.
RowHolds(row, record) ==
  /\ Len(row) = Len(record) + 1
  /\ \A j \in 1..Len(record) :
       IsFloatText(row[j + 1]) /\ NumEq(ParseFloat(row[j + 1]), record[j])

\* C2: the rows of the run's log are exactly the records the run logged, in
\* the order process_data produced them: row k holds the k-th logged record,
\* none twice, none out of order, and the timestamps never decrease.
C2_LogOrder ==
  /\ Len(LogRows) = Len(Logged)
  /\ \A k \in 1..Len(LogRows) : RowHolds(LogRows[k], Logged[k].ret)
  /\ \A k \in 1..(Len(LogRows) - 1) :
       Leq(ParseFloat(LogRows[k][1]), ParseFloat(LogRows[k + 1][1]))

\* Two different records logged one after the other by one run.
C2_Witness ==
  /\ Len(Logged) >= 2
  /\ Logged[1].ret # Logged[2].ret
  /\ Len(LogRows) = Len(Logged)
  /\ RowHolds(LogRows[2], Logged[2].ret)
  /\ ~RowHolds(LogRows[1], Logged[2].ret)

IsPrefix(s, t) == Len(s) <= Len(t) /\ SubSeq(t, 1, Len(s)) = s

\* C3: the log is append-only and one file belongs to one run: a file once
\* there stays, its earlier rows are a prefix of its later rows, and no file
\* is written by two DataLogger instances.
C3_AppendOnlyOneRun ==
  [][/\ \A p \in Paths :
          /\ files[p].exists => files'[p].exists
          /\ IsPrefix(files[p].rows, files'[p].rows)
     /\ \A p \in Paths : Cardinality(writers'[p]) <= 1]_vars

\* The rpm process_data reads from a frame.
RpmOf(frame) == ValueOr(frame.rpm, PyInt(0))

\* C4: a process_data call appends exactly one row to the active log when the
\* source is connected, logging_active is true and the frame's rpm > 0, and
\* no row otherwise.  A call whose write the file system refused is left out.
C4_OneRowPerLoggedCall ==
  [][ncalls' = ncalls + 1 /\ ~(produced'[Len(produced')].logged
                               /\ ~produced'[Len(produced')].wrote)
       => Len(files'[logger.filepath].rows) - Len(LogRows)
            = IF /\ produced'[Len(produced')].conn = "up"
                 /\ brain.logging_active
                 /\ Less(PyInt(0), RpmOf(produced'[Len(produced')].frame))
              THEN 1 ELSE 0]_vars

\* C12: a process_data call on an absent or unconnected source raises nothing
\* and returns a record of exactly 11 fields, all zero.
C12_OfflineRecord ==
  \A k \in 1..Len(produced) :
    produced[k].conn # "up" =>
      /\ produced[k].raised = "none"
      /\ Len(produced[k].ret) = 11
      /\ \A j \in 1..Len(produced[k].ret) : NumEq(produced[k].ret[j], PyInt(0))

\* Field j of a returned record is zero when reading r is null.
ZeroIfNull(r, ret, j) == r.null => NumEq(ret[j], PyInt(0))

\* C13: a process_data call on a connected source raises nothing whatever
\* readings of the frame are null, and returns an 11-field record in which
\* the null readings count as 0.
C13_PartialData ==
  \A k \in 1..Len(produced) :
    produced[k].conn = "up" =>
      /\ produced[k].raised = "none"
      /\ Len(produced[k].ret) = 11
      /\ ZeroIfNull(produced[k].frame.rpm, produced[k].ret, 1)
      /\ ZeroIfNull(produced[k].frame.speed, produced[k].ret, 2)
      /\ ZeroIfNull(produced[k].frame.maf, produced[k].ret, 3)
      /\ ZeroIfNull(produced[k].frame.coolant, produced[k].ret, 7)
      /\ ZeroIfNull(produced[k].frame.load, produced[k].ret, 8)

\* The speed process_data reads from a frame.
SpeedOf(frame) == ValueOr(frame.speed, PyInt(0))

\* C20: a process_data call starts a timed run only on a rising edge: no run
\* is in progress, the speed of the call is in the 2-8 band, and the speed of
\* the call before it, if there was one and it did not raise, was at most 2.
C20_RisingEdgeStart ==
  [][ncalls' = ncalls + 1 /\ ~brain.perf_running /\ brain'.perf_running
       => /\ Less(PyInt(2), SpeedOf(produced'[Len(produced')].frame))
          /\ Less(SpeedOf(produced'[Len(produced')].frame), PyInt(8))
          /\ produced # <<>> /\ produced[Len(produced)].raised = "none"
               => Leq(SpeedOf(produced[Len(produced)].frame), PyInt(2))]_vars

\* The call recorded last.
LastCall(calls) == calls[Len(calls)]

\* A call whose row the file system refused came back as computed: cal is its
\* record in produced, c what Compute gives for its frame on the brain before.
KeptOn(cal, c, br) == cal.raised = "none" /\ cal.ret = c.metrics /\ br = c.brain

\* C23: a process_data call whose log row cannot be written raises nothing
\* and returns the record it computed; the brain it leaves (cumulative fuel,
\* trim window, fuel map, leaderboard, logging_active) is the one of the same
\* call with a successful write, so that later calls compute on.
C23_LogFailureKept ==
  [][ncalls' = ncalls + 1 /\ LastCall(produced').logged /\ ~LastCall(produced').wrote
       => KeptOn(LastCall(produced'),
                 Compute(brain, LastCall(produced').frame, now'), brain')]_vars

\* A write was refused, and the next call computed, counted the fuel of both
\* calls and wrote its row.
C23_Witness ==
  /\ Len(produced) >= 2
  /\ produced[1].logged /\ ~produced[1].wrote /\ produced[1].raised = "none"
  /\ produced[2].wrote
  /\ Less(produced[1].ret[9], produced[2].ret[9])
  /\ Len(LogRows) = 1

\* ------------------------------------------------ the log and its replay

\* Records a caller hands to log_sample: two of eleven fields, and the ten
\* zeros process_data returns for an absent source.
Records ==
  { <<Flt(1000, 0), Flt(5, 0), Flt(1452, 1), Flt(1035, 0), Flt(5104, 1), Flt(364, 1),
      Flt(90, 0), Flt(40, 0), Flt(1011, 6), PyInt(0), PyInt(25)>>,
    <<Flt(850, 0), Flt(0, 0), Flt(132, 1), Flt(1107, 1), Flt(464, 1), Flt(3309, 3),
      Flt(-10, 0), Flt(125, 1), Flt(9193, 9), Flt(1414, 3), Flt(315, 1)>>,
    TenZeros }

\* A row of a log as log_sample writes it.
GoodRow == RowText(LogRow(CHOOSE r \in Records : Len(r) = 11 /\ r[11].k = "int", 0))

\* Files found in the log directory that this run did not write: none, a log
\* whose last row was cut short, a log with a field that is no number.
ExternalFiles ==
  { NoFile,
    [exists |-> TRUE, header |-> Headers, rows |-> <<GoodRow, SubSeq(GoodRow, 1, 7)>>],
    [exists |-> TRUE, header |-> Headers,
     rows |-> <<GoodRow, [GoodRow EXCEPT ![5] = <<"e", "r", "r">>]>>] }

\* DataLogger.log_sample(metrics) called on the run's logger.
LogSampleCall(metrics) ==
  /\ Len(written) < MaxRows
  /\ \E ioerror \in BOOLEAN :
       /\ now' = Min(now + 1, MaxNow)
       /\ files' = LogSample(files, logger, metrics, now', ioerror)
       /\ written' = IF ioerror THEN written ELSE Append(written, metrics)
  /\ UNCHANGED <<logger, brain, produced, nbrains, ncalls, writers, is_playing,
                 event, data, current_frame, scheduled, nevents, sink, sink_base,
                 source, last, died, appVars, uiVars, calVars>>

InitReplay ==
  /\ now = 0
  /\ brain = BrainInit(Flt(2, 0))
  /\ logger = DataLoggerInit([p \in Paths |-> NoFile], 0).logger
  /\ \E ext \in ExternalFiles :
       files = [DataLoggerInit([p \in Paths |-> NoFile], 0).files
                  EXCEPT ![<<"other", 1>>] = ext]
  /\ produced = <<>>
  /\ nbrains = 1
  /\ ncalls = 0
  /\ writers = [p \in Paths |-> IF p = RunLogPath(0) THEN {1} ELSE {}]
  /\ ReplayerInit
  /\ AppInit("None", FALSE)
  /\ UiInit
  /\ CalInit

NextReplay ==
  \/ \E metrics \in Records : LogSampleCall(metrics)
  \/ \E path \in {logger.filepath} \cup OtherPaths :
       StartReplay(path) /\ UNCHANGED <<logVars, appVars, uiVars, calVars>>
  \/ \E path \in {logger.filepath} \cup OtherPaths :
       StartReplayFails(path) /\ UNCHANGED <<logVars, appVars, uiVars, calVars>>
  \/ StopReplay /\ UNCHANGED <<logVars, appVars, uiVars, calVars>>
  \/ \E e \in scheduled : Tick(e) /\ UNCHANGED <<logVars, appVars, uiVars, calVars>>

SpecReplay == InitReplay /\ [][NextReplay]_vars

\* The records the sink received since the last start.
Delivered == SubSeq(sink, sink_base + 1, Len(sink))

\* Two records hold the same eleven numbers.
SameNumbers(a, b) ==
  Len(a) = 11 /\ Len(b) = 11 /\ \A j \in 1..11 : NumEq(a[j], b[j])

\* C5: round trip.  When the run's own log is replayed, the file reads as
\* one row per record log_sample wrote, the sink receives one call per row in
\* the original order, and the call for a record of eleven fields carries
\* that record's eleven numbers.
C5_RoundTrip ==
  last.own =>
    /\ Len(data) = Len(source)
    /\ Len(Delivered) = current_frame
    /\ current_frame <= Len(data)
    /\ \A i \in 1..current_frame :
         Len(source[i]) = 11 => SameNumbers(Delivered[i], source[i])

\* A log of two different eleven-field records replayed to its end.
C5_Witness ==
  /\ last.own
  /\ Len(source) = 2
  /\ Len(source[1]) = 11 /\ Len(source[2]) = 11
  /\ ~SameNumbers(source[1], source[2])
  /\ current_frame = 2
  /\ SameNumbers(Delivered[1], source[1])
  /\ SameNumbers(Delivered[2], source[2])

\* The loaded file has a row that is too short or holds a field that is no
\* number.
BadData == \E i \in 1..Len(data) : TickRaises(data[i])

\* C6: replaying a truncated or corrupt file delivers no record of it and the
\* replay does not start.
C6_CorruptFileNoEmission ==
  BadData => ~is_playing /\ Len(Delivered) = 0

\* C7 (state part): since the last start the sink received the first
\* current_frame records of the file, record i by the i-th delivering tick.
C7_Delivered ==
  current_frame # Unset =>
    /\ Len(Delivered) = current_frame
    /\ data # <<>> => current_frame <= Len(data)
    /\ \A i \in 1..Min(current_frame, Len(data)) : Delivered[i] = MetricsList(data[i])

\* C7 (step part): a record is delivered only while rows remain, and it is
\* the next row; the tick after the last row delivers nothing and stops the
\* replay, is_playing false and the tick event unscheduled.
C7_Step ==
  /\ sink' # sink =>
       /\ current_frame < Len(data)
       /\ sink' = Append(sink, MetricsList(data[current_frame + 1]))
       /\ current_frame' = current_frame + 1
  /\ last'.op = "tick_end" =>
       /\ ~is_playing'
       /\ event' \notin scheduled'
       /\ sink' = sink
       /\ current_frame' >= Len(data')

\* C7: a replay of n records delivers exactly n records, record i on the
\* i-th tick, then stops itself on the next tick and delivers nothing more
\* without a new start.
C7_ReplayDeliversThenStops == []C7_Delivered /\ [][C7_Step]_vars

\* A replay of two records that delivered both and stopped itself.
C7_Witness ==
  /\ last.op = "tick_end"
  /\ last.was_playing
  /\ Len(data) = 2
  /\ current_frame = 2
  /\ Len(Delivered) = 2
  /\ ~is_playing
  /\ event \notin scheduled

\* C8: no record is delivered to the sink while the replayer is stopped,
\* whatever sequence of start_replay and stop_replay calls came before.
C8_NoDeliveryAfterStop == [][sink' # sink => is_playing]_vars

\* C9: stop_replay on a replayer that is already stopped or was never
\* started leaves it as after a single stop: is_playing false, no tick
\* scheduled, data and position unchanged.
C9_StopIdempotent ==
  [][last'.op = "stop_replay" /\ ~last'.was_playing
       => /\ ~is_playing'
          /\ scheduled' = {}
          /\ UNCHANGED <<data, current_frame>>]_vars

\* ------------------------------------------- the worker thread and on_stop

\* The frame a source answers the queries of one process_data call with: a
\* source closed meanwhile answers every query with a null response.
Answers == IF is_connected THEN Frames ELSE {NullFrame}

\* while not self.stop_thread
WorkerLoop ==
  /\ worker = "while"
  /\ worker' = IF stop_thread THEN "cleanup" ELSE "check"
  /\ UNCHANGED <<stop_thread, connection, is_connected, latest_metrics, stopper,
                 released, ghost, logVars, replayVars>>

\* if self.connection and self.connection.is_connected(): the call of
\* process_data is next, else time.sleep(2.0).
WorkerCheck ==
  /\ worker = "check"
  /\ ncalls < MaxCalls
  /\ worker' = IF connection # "None" /\ is_connected THEN "call" ELSE "sleep"
  /\ UNCHANGED <<stop_thread, connection, is_connected, latest_metrics, stopper,
                 released, ghost, logVars, replayVars>>

\* process_data(self.connection) begins: past its own connection check the
\* queries start; a source found closed there makes it return [0]*10.
WorkerEnter ==
  /\ worker = "call"
  /\ IF is_connected
     THEN /\ worker' = "query"
          /\ UNCHANGED <<latest_metrics, logVars>>
     ELSE /\ ProcessDataOffline("down")
          /\ latest_metrics' = TenZeros
          /\ worker' = "unpack"
  /\ UNCHANGED <<stop_thread, connection, is_connected, stopper, released, ghost>>
  /\ UNCHANGED replayVars

\* The queries, calculations and logging of the process_data call, which
\* returns its record to self.latest_metrics.
WorkerQuery ==
  /\ worker = "query"
  /\ \E frame \in Answers :
       /\ ProcessData(frame)
       /\ latest_metrics' = produced'[Len(produced')].ret
  /\ worker' = "unpack"
  /\ UNCHANGED <<stop_thread, connection, is_connected, stopper, released, ghost>>

\* The process_data call raises.
WorkerQueryRaises ==
  /\ worker = "query"
  /\ \E frame \in Answers : ProcessDataRaise(frame)
  /\ worker' = "except"
  /\ UNCHANGED <<stop_thread, connection, is_connected, latest_metrics, stopper,
                 released, ghost>>

\* metrics = [rpm, ..., temp_in] = self.latest_metrics raises ValueError unless
\* the record has eleven fields; then the UI update is scheduled.
WorkerUnpack ==
  /\ worker = "unpack"
  /\ worker' = IF Len(latest_metrics) = 11 THEN "sleep" ELSE "except"
  /\ live_sink' = IF Len(latest_metrics) = 11
                  THEN Append(live_sink, [metrics |-> latest_metrics,
                                          extra |-> CalculateExtraMetrics(latest_metrics)])
                  ELSE live_sink
  /\ UNCHANGED <<stop_thread, connection, is_connected, latest_metrics, stopper,
                 released, ghost, logVars, replayVars>>

\* An except clause that gives the loop up.
WorkerExceptEnds ==
  /\ worker = "except"
  /\ connection' = "None"
  /\ worker' = "done"
  /\ UNCHANGED <<stop_thread, is_connected, latest_metrics, stopper, released,
                 ghost, logVars, replayVars>>

\* except Exception: self.connection = None, time.sleep(2.0)
WorkerExcept ==
  /\ worker = "except"
  /\ connection' = "None"
  /\ worker' = "sleep"
  /\ UNCHANGED <<stop_thread, is_connected, latest_metrics, stopper, released,
                 ghost, logVars, replayVars>>

\* time.sleep ends.
WorkerSleep ==
  /\ worker = "sleep"
  /\ worker' = "while"
  /\ UNCHANGED <<stop_thread, connection, is_connected, latest_metrics, stopper,
                 released, ghost, logVars, replayVars>>

\* The final cleanup of background_worker: the connection is closed if there
\* still is one.
WorkerCleanup ==
  /\ worker = "cleanup"
  /\ worker' = "done"
  /\ is_connected' = IF connection # "None" THEN FALSE ELSE is_connected
  /\ released' = IF connection # "None" /\ released = "no" THEN "worker" ELSE released
  /\ UNCHANGED <<stop_thread, connection, latest_metrics, stopper, ghost, logVars,
                 replayVars>>

\* on_stop, step 1: self.stop_thread = True
OnStopFlag ==
  /\ stopper = "idle"
  /\ stop_thread' = TRUE
  /\ stopper' = "flagged"
  /\ UNCHANGED <<connection, is_connected, latest_metrics, worker, released, ghost,
                 logVars, replayVars>>

\* on_stop, step 2: if self.connection: self.connection.close()
OnStopClose ==
  /\ stopper = "flagged"
  /\ stopper' = "closed"
  /\ is_connected' = IF connection # "None" THEN FALSE ELSE is_connected
  /\ released' = IF connection # "None" /\ released = "no" THEN "on_stop" ELSE released
  /\ UNCHANGED <<stop_thread, connection, latest_metrics, worker, ghost, logVars,
                 replayVars>>

\* self.worker_thread.join() without a timeout: it returns once the thread ended.
OnStopJoinWaits ==
  /\ stopper = "closed"
  /\ worker = "done"
  /\ stopper' = "joined"
  /\ UNCHANGED <<stop_thread, connection, is_connected, latest_metrics, worker,
                 released, ghost, logVars, replayVars>>

\* on_stop, step 3: self.worker_thread.join(timeout=1.0) returns, the thread
\* ended or the second passed.
OnStopJoin ==
  /\ stopper = "closed"
  /\ stopper' = "joined"
  /\ UNCHANGED <<stop_thread, connection, is_connected, latest_metrics, worker,
                 released, ghost, logVars, replayVars>>

\* start_ghost_mode(file_path, ghost_ui_callback): the callback is stored,
\* then self._load_file(file_path[0]) raises TypeError, _load_file taking no
\* argument; the lines after it, which set current_index and schedule
\* ghost_step, are not reached.
StartGhostMode(path) ==
  /\ ghost' = [ghost EXCEPT !.callback = "set", !.file = path,
                            !.n = Len(DictReader(files[path])),
                            !.raised = "TypeError"]
  /\ UNCHANGED <<stop_thread, connection, is_connected, latest_metrics, worker,
                 stopper, released, logVars, replayVars>>

\* The ten numbers ghost_step sends for a row.
GhostMetrics(row) == [i \in 1..10 |-> FloatGet(row, TickColumns[i], PyInt(0))]

\* Whether building ghost_metrics from row raises.
GhostRaises(row) == \E i \in 1..10 : FloatGetError(row, TickColumns[i]) # "none"

\* The ghost replay after ghost_step(dt).
GhostStepOn(g) ==
  IF g.current_index = Unset THEN [g EXCEPT !.raised = "AttributeError"]
  ELSE IF g.current_index < Len(data)
  THEN IF GhostRaises(data[g.current_index + 1])
       THEN [g EXCEPT !.raised = "ValueError"]
       ELSE [g EXCEPT !.sink = Append(@, GhostMetrics(data[g.current_index + 1])),
                      !.current_index = @ + 1]
  ELSE [g EXCEPT !.scheduled = FALSE]

\* ghost_step(dt), called by the Clock when scheduled or by the host.
GhostStep ==
  /\ ghost' = GhostStepOn(ghost)
  /\ UNCHANGED <<stop_thread, connection, is_connected, latest_metrics, worker,
                 stopper, released, logVars, replayVars>>

\* Source objects the application may hold: none, one that is not connected,
\* a connected one.
Sources == {<<"None", FALSE>>, <<"conn", FALSE>>, <<"conn", TRUE>>}

InitApp ==
  /\ now = 0
  /\ brain = BrainInit(Flt(2, 0))
  /\ logger = DataLoggerInit([p \in Paths |-> NoFile], 0).logger
  /\ files = DataLoggerInit([p \in Paths |-> NoFile], 0).files
  /\ produced = <<>>
  /\ nbrains = 1
  /\ ncalls = 0
  /\ writers = [p \in Paths |-> IF p = RunLogPath(0) THEN {1} ELSE {}]
  /\ ReplayerInit
  /\ \E src \in Sources : AppInit(src[1], src[2])
  /\ UiInit
  /\ CalInit

NextApp ==
  \/ WorkerLoop /\ UNCHANGED <<uiVars, calVars>>
  \/ WorkerCheck /\ UNCHANGED <<uiVars, calVars>>
  \/ WorkerEnter /\ UNCHANGED <<uiVars, calVars>>
  \/ WorkerQuery /\ UNCHANGED <<uiVars, calVars>>
  \/ WorkerQueryRaises /\ UNCHANGED <<uiVars, calVars>>
  \/ WorkerUnpack /\ UNCHANGED <<doctor, extra, calVars>>
  \/ WorkerExcept /\ UNCHANGED <<uiVars, calVars>>
  \/ WorkerSleep /\ UNCHANGED <<uiVars, calVars>>
  \/ WorkerCleanup /\ UNCHANGED <<uiVars, calVars>>
  \/ OnStopFlag /\ UNCHANGED <<uiVars, calVars>>
  \/ OnStopClose /\ UNCHANGED <<uiVars, calVars>>
  \/ OnStopJoin /\ UNCHANGED <<uiVars, calVars>>
  \/ \E path \in {logger.filepath} : StartGhostMode(path) /\ UNCHANGED <<uiVars, calVars>>
  \/ GhostStep /\ UNCHANGED <<uiVars, calVars>>

SpecApp == InitApp /\ [][NextApp]_vars

\* C1: when on_stop releases the source connection, no process_data call of
\* background_worker is in progress: the stop flag is set, the call in flight
\* finishes, and only then is the connection closed.
C1_StopOrder == ~(released = "on_stop" /\ worker = "query")

\* C10: a ghost replay started on a log of n records is scheduled until it
\* has delivered the n records to the ghost sink, whatever the live producer
\* does.
C10_GhostDelivers ==
  ghost.callback = "set" => ghost.scheduled \/ Len(ghost.sink) = ghost.n

\* C11: no error inside a cycle ends the producer loop: while stop_thread is
\* false background_worker is inside its while loop, and it leaves the loop
\* only once the host has set stop_thread.
C11_LoopSurvives ==
  /\ worker \in {"cleanup", "done"} => stop_thread
  /\ worker \in {"while", "check", "call", "query", "unpack", "except", "sleep",
                 "cleanup", "done"}

\* A cycle raised (a process_data error, or the unpacking of a short record)
\* and the loop is back at its head with stop_thread false.
C11_Witness ==
  /\ ~stop_thread
  /\ worker = "while"
  /\ produced # <<>>
  /\ \/ produced[Len(produced)].raised # "none"
     \/ Len(produced[Len(produced)].ret) # 11
  /\ connection = "None"

\* C14: the most-recent-value slot latest_metrics always holds a record of
\* 11 fields, also when the connection drops between the worker's
\* connectivity check and the process_data call.
C14_SlotComplete == Len(latest_metrics) = 11

\* ------------------------------------------- the doctor on its own

\* An 11-field record with the fields diagnose reads.
DoctorRecord(rpm, speed, coolant, load, stability) ==
  <<rpm, speed, Flt(1452, 1), Flt(1035, 0), Flt(5104, 1), Flt(364, 1), coolant, load,
    Flt(1011, 6), stability, PyInt(25)>>

\* Records on both sides of every threshold of the rules.
DoctorRecords ==
  { DoctorRecord(Flt(rpm, 0), Flt(speed, 0), Flt(coolant, 0), Flt(load, 0),
                 Flt(stability, 1)) :
      rpm \in {3000, 3001, 3500, 3501}, speed \in {4, 5, 80, 81},
      coolant \in {69, 70, 105, 106}, load \in {29, 30}, stability \in {30, 31} }

InitDoctor == Init

\* The doctor is called with a record of the engine, the offline record of
\* process_data among them.
NextDoctor ==
  \E metrics \in DoctorRecords \cup {TenZeros, ElevenZeros} : DiagnoseCall(metrics)

SpecDoctor == InitDoctor /\ [][NextDoctor]_vars

\* C15: diagnose never raises on a record process_data can return, the
\* record of an unavailable source included, and its severity is 0, 1 or 2.
C15_DiagnoseTotal ==
  doctor.called => doctor.raised = "none" /\ doctor.severity \in {0, 1, 2}

\* One rule of the ordered list: its condition on record m and its verdict.
Rule(holds, severity, advice) ==
  [holds |-> holds, severity |-> severity, advice |-> advice]

\* The ordered rule list of the diagnosis, evaluated on record m.
Rules(m) ==
  << Rule(Less(m[7], PyInt(70)) /\ Less(PyInt(3500), m[1]), 2,
          "CRITICAL: HIGH RPM ON COLD ENGINE!"),
     Rule(Less(m[7], PyInt(70)), 1, "Engine Cold: Limit RPM < 3000"),
     Rule(Less(PyInt(105), m[7]), 2, "OVERHEATING: Check Airflow / Coolant"),
     Rule(Less(PyInt(80), m[2]) /\ Less(m[8], PyInt(30)) /\ Less(PyInt(3000), m[1]), 0,
          "Shift Up to Save Fuel"),
     Rule(Less(m[2], PyInt(5)) /\ Less(Flt(30, 1), m[10]), 1,
          "Rough Idle Detected: Check Spark/Fuel"),
     Rule(TRUE, 0, "System Normal") >>

\* The first rule of the list that holds.
FirstMatch(rules) ==
  rules[CHOOSE i \in 1..Len(rules) : rules[i].holds /\ \A j \in 1..(i - 1) : ~rules[j].holds]

\* C16: on every 11-field record diagnose returns the verdict of the first
\* rule of the ordered list that matches; no later rule overrides it.
C16_FirstMatchWins ==
  doctor.called /\ Len(doctor.metrics) = 11 =>
    /\ doctor.raised = "none"
    /\ doctor.severity = FirstMatch(Rules(doctor.metrics)).severity
    /\ doctor.advice = FirstMatch(Rules(doctor.metrics)).advice

\* A cold engine at high rpm: rule 1 matches before rule 2.
C16_Witness ==
  /\ doctor.called
  /\ Len(doctor.metrics) = 11
  /\ Less(doctor.metrics[7], PyInt(70))
  /\ Less(PyInt(3500), doctor.metrics[1])
  /\ doctor.severity = 2
  /\ Rules(doctor.metrics)[2].holds

\* ------------------------------------------- a long drive

\* process_data calls of one drive.
MaxDrive == 42

\* Frames of the drive whose fuel trim departs from the steady one.
MaxGlitches == 1

\* The frame of a steadily running engine, and one with another fuel trim.
SteadyFrame ==
  Frame(Reading(Flt(1000, 0)), Reading(Flt(5, 0)), Reading(Flt(110, 0)),
        Reading(Flt(90, 0)), Reading(Flt(40, 0)), Reading(Flt(15, 1)), NullReading)

GlitchFrame == [SteadyFrame EXCEPT !.fuel_trim = Reading(Flt(-25, 1))]

\* The calls of the run that reached the calculations.
Calculated == SelectSeq(produced, LAMBDA c : c.conn = "up" /\ c.raised = "none")

Glitches == Len(SelectSeq(produced, LAMBDA c : c.frame = GlitchFrame))

\* process_data(connection) on a connected source that answers frame, within
\* the current clock tick and with a log that takes every row.
DriveCall(frame) ==
  /\ ncalls < MaxDrive
  /\ ncalls' = ncalls + 1
  /\ frame = GlitchFrame => Glitches < MaxGlitches
  /\ Raises(brain, frame) = "none"
  /\ Finish(frame, Compute(brain, frame, now), now, FALSE)
  /\ UNCHANGED <<logger, nbrains, replayVars, appVars, uiVars, calVars>>

InitDrive == Init

NextDrive == \E frame \in {SteadyFrame, GlitchFrame} : DriveCall(frame)

SpecDrive == InitDrive /\ [][NextDrive]_vars

\* The last n elements of xs, all of them if there are fewer.
LastN(xs, n) == SubSeq(xs, Max(1, Len(xs) - n + 1), Len(xs))

\* The fuel trims process_data read, in call order.
Trims == [k \in 1..Len(Calculated) |-> Extract(Calculated[k].frame).trim]

MaxRace == 8

\* The frames of a car in the start band and of a car at 100.
BandFrame ==
  Frame(Reading(Flt(1000, 0)), Reading(Flt(5, 0)), Reading(Flt(110, 0)),
        Reading(Flt(90, 0)), Reading(Flt(40, 0)), Reading(Flt(15, 1)), NullReading)

FastFrame ==
  Frame(Reading(Flt(4000, 0)), Reading(Flt(100, 0)), Reading(Flt(110, 0)),
        Reading(Flt(60, 0)), Reading(Flt(20, 0)), Reading(Flt(-25, 1)), NullReading)

\* process_data(connection) on a connected source that answers frame, with a
\* log that takes every row; the clock ticks, if it does, while the car
\* accelerates to 100.
RaceCall(frame) ==
  /\ ncalls < MaxRace
  /\ ncalls' = ncalls + 1
  /\ Raises(brain, frame) = "none"
  /\ \E t \in now..(IF frame = FastFrame THEN Min(now + 1, MaxNow) ELSE now) :
       Finish(frame, Compute(brain, frame, t), t, FALSE)
  /\ UNCHANGED <<logger, nbrains, replayVars, appVars, uiVars, calVars>>

InitRace == Init

NextRace == \E frame \in {BandFrame, FastFrame} : RaceCall(frame)

SpecRace == InitRace /\ [][NextRace]_vars

\* C18: the leaderboard holds at most 3 entries and is sorted ascending.
C18_Leaderboard ==
  /\ Len(brain.leaderboard) <= 3
  /\ \A i \in 1..Len(brain.leaderboard), j \in 1..Len(brain.leaderboard) :
       i < j => Leq(brain.leaderboard[i], brain.leaderboard[j])

\* Four timed runs were completed and the leaderboard holds three times that
\* are not all equal.
C18_Witness ==
  /\ Len(produced) = 8
  /\ \A k \in 1..4 : produced[2 * k - 1].frame = BandFrame /\ produced[2 * k].frame = FastFrame
  /\ Len(brain.leaderboard) = 3
  /\ Less(brain.leaderboard[1], brain.leaderboard[3])
  /\ ~brain.perf_running

\* The load the call's frame gave process_data.
LoadOf(frame) == ValueOr(frame.load, PyInt(0))

\* The bin of x among the increasing edges 0, step, ..., (n - 1) * step: the
\* index of the largest edge <= x, counted from 0; -1 below the first edge.
BinOf(x, step, n) ==
  Cardinality({i \in 0..(n - 1) : Leq(PyInt(i * step), x)}) - 1

\* The fuel-map cell (load bin, rpm bin) of a call.
CellOf(c) ==
  <<BinOf(LoadOf(c.frame), 5, LoadBins), BinOf(RpmOf(c.frame), 250, RpmBins)>>

\* The last of the calls whose cell, listed in cells, is cell; 0 if none.
LastHit(cells, cell) ==
  IF \E k \in 1..Len(cells) : cells[k] = cell
  THEN CHOOSE k \in 1..Len(cells) :
         cells[k] = cell /\ \A j \in (k + 1)..Len(cells) : cells[j] # cell
  ELSE 0

\* Fuel map fm holds, in every cell, the fuel rate of the last of calls that
\* fell into the cell, and 0 where none did.
HoldsLastRates(fm, calls, cells) ==
  \A l \in 0..(LoadBins - 1), r \in 0..(RpmBins - 1) :
    NumEq(FuelMapAt(fm, l, r),
          IF LastHit(cells, <<l, r>>) = 0 THEN PyInt(0)
          ELSE calls[LastHit(cells, <<l, r>>)].ret[6])

Hits(l, r) == SelectSeq(Calculated, LAMBDA c : CellOf(c) = <<l, r>>)

CalFrames == {SteadyFrame}

\* The process_data call of the worker on a frame of CalFrames, within the
\* current clock tick and with a log that takes every row.
CalQuery ==
  /\ WorkerQuery
  /\ now' = now
  /\ produced'[Len(produced')].frame \in CalFrames
  /\ produced'[Len(produced')].wrote = produced'[Len(produced')].logged

CalQueryRaises ==
  /\ WorkerQueryRaises
  /\ produced'[Len(produced')].frame \in CalFrames

\* build() of the next start of the application, once this one has stopped:
\* TelemetryBrain(displacement=saved cc / 1000.0), the initial attributes, a
\* connected source and a new worker thread.
Build ==
  /\ worker = "done"
  /\ stopper = "joined"
  /\ TelemetryBrainInit(Div(popup.engine, PyInt(1000)))
  /\ stop_thread' = FALSE
  /\ connection' = "conn"
  /\ is_connected' = TRUE
  /\ latest_metrics' = ElevenZeros
  /\ worker' = "while"
  /\ stopper' = "idle"
  /\ released' = "no"
  /\ popup' = [popup EXCEPT !.open = FALSE]
  /\ UNCHANGED <<ghost, uiVars>>

InitCal ==
  /\ now = 0
  /\ brain = BrainInit(Flt(2, 0))
  /\ logger = DataLoggerInit([p \in Paths |-> NoFile], 0).logger
  /\ files = DataLoggerInit([p \in Paths |-> NoFile], 0).files
  /\ produced = <<>>
  /\ nbrains = 1
  /\ ncalls = 0
  /\ writers = [p \in Paths |-> IF p = RunLogPath(0) THEN {1} ELSE {}]
  /\ ReplayerInit
  /\ AppInit("conn", TRUE)
  /\ UiInit
  /\ CalInit

NextCal ==
  \/ WorkerLoop /\ UNCHANGED <<uiVars, calVars>>
  \/ WorkerCheck /\ UNCHANGED <<uiVars, calVars>>
  \/ WorkerEnter /\ UNCHANGED <<uiVars, calVars>>
  \/ CalQuery /\ UNCHANGED <<uiVars, calVars>>
  \/ CalQueryRaises /\ UNCHANGED <<uiVars, calVars>>
  \/ WorkerUnpack /\ UNCHANGED <<doctor, extra, calVars>>
  \/ WorkerExcept /\ UNCHANGED <<uiVars, calVars>>
  \/ WorkerSleep /\ UNCHANGED <<uiVars, calVars>>
  \/ WorkerCleanup /\ UNCHANGED <<uiVars, calVars>>
  \/ OnStopFlag /\ UNCHANGED <<uiVars, calVars>>
  \/ OnStopClose /\ UNCHANGED <<uiVars, calVars>>
  \/ OnStopJoin /\ UNCHANGED <<uiVars, calVars>>
  \/ OpenSettings
  \/ \E text \in CcTexts : EnterCc(text)
  \/ SaveAndClose
  \/ \E has_adapter \in BOOLEAN : SaveAndApply(has_adapter)
  \/ Build

SpecCal == InitCal /\ [][NextCal]_vars

\* C21: the displacement does not change while a process_data call is in
\* progress, and while the producer loop runs the state of the brain changes
\* only by that loop's process_data call; a calibration save does not
\* interleave with a frame in flight.
C21_NoSaveMidFrame ==
  [][/\ worker = "query" => brain'.displacement = brain.displacement
     /\ worker # "done" /\ brain' # brain => worker = "query" /\ worker' = "unpack"]_vars

\* C29: no engine with a displacement <= 0 serves a process_data call,
\* neither one constructed with it nor one recalibrated to it.
C29_PositiveDisplacement ==
  [][ncalls' = ncalls + 1 => Less(PyInt(0), brain.displacement)]_vars


\* ------------------------------------------- shutdown

\* The head of the worker's loop; a new cycle begins only while calls remain.
WorkerLoopOn ==
  /\ stop_thread \/ ncalls < MaxCalls
  /\ WorkerLoop

\* The steps of the worker thread outside the source: the thread is scheduled.
WorkerRuns ==
  \/ WorkerLoopOn /\ UNCHANGED <<uiVars, calVars>>
  \/ WorkerCheck /\ UNCHANGED <<uiVars, calVars>>
  \/ WorkerEnter /\ UNCHANGED <<uiVars, calVars>>
  \/ WorkerUnpack /\ UNCHANGED <<doctor, extra, calVars>>
  \/ WorkerExcept /\ UNCHANGED <<uiVars, calVars>>
  \/ WorkerSleep /\ UNCHANGED <<uiVars, calVars>>
  \/ WorkerCleanup /\ UNCHANGED <<uiVars, calVars>>

\* The source answers the queries of the call in progress; it may never do so.
SourceAnswers ==
  \/ CalQuery /\ UNCHANGED <<uiVars, calVars>>
  \/ \E frame \in Frames :
       /\ WorkerQueryRaises
       /\ produced'[Len(produced')].frame = frame
       /\ UNCHANGED <<uiVars, calVars>>

\* on_stop once the host has called it.
OnStopRuns ==
  \/ OnStopClose /\ UNCHANGED <<uiVars, calVars>>
  \/ OnStopJoin /\ UNCHANGED <<uiVars, calVars>>

InitStop == InitApp

NextStop ==
  \/ WorkerRuns
  \/ SourceAnswers
  \/ OnStopFlag /\ UNCHANGED <<uiVars, calVars>>
  \/ OnStopRuns

\* The worker thread and the main thread inside on_stop keep running; the
\* source is not required to answer.
SpecStop ==
  InitStop /\ [][NextStop]_vars /\ WF_vars(WorkerRuns) /\ WF_vars(OnStopRuns)

\* C22: shutdown terminates.  A call of on_stop returns, also when the worker
\* is blocked in a query of the source for ever; and once stop_thread is set
\* the worker leaves its loop and ends, unless the source never answers the
\* query it is blocked in.
C22_ShutdownTerminates ==
  /\ stopper = "flagged" ~> stopper = "joined"
  /\ stop_thread ~> (worker = "done" \/ [](worker = "query"))

\* on_stop has returned while the worker is still blocked in a query.
C22_Witness == stopper = "joined" /\ stop_thread /\ worker = "query"


\* ------------------------------------------- process_data at its thresholds

\* process_data calls of one run at the thresholds.
MaxEdge == 2

\* The rpm readings around the thresholds of torque and VE.
EdgeRpms ==
  {NullReading, Reading(Flt(0, 0)), Reading(Flt(400, 0)), Reading(Flt(401, 0)),
   Reading(Flt(500, 0)), Reading(Flt(501, 0))}

\* Frames of a running engine with these rpm, and frames with one reading or
\* all of them null.
EdgeFrames ==
  {[SteadyFrame EXCEPT !.rpm = r] : r \in EdgeRpms}
    \cup {[SteadyFrame EXCEPT !.speed = NullReading],
          [SteadyFrame EXCEPT !.maf = NullReading],
          [SteadyFrame EXCEPT !.coolant = NullReading],
          [SteadyFrame EXCEPT !.load = NullReading],
          [SteadyFrame EXCEPT !.fuel_trim = NullReading],
          [SteadyFrame EXCEPT !.intake_temp = Reading(Flt(25, 0))],
          NullFrame}

\* Displacements of the engine: the default and the 0 a calibration may leave.
EdgeDisplacements == {Flt(2, 0), Flt(0, 0)}

\* process_data(connection) on a connected source that answers frame, within
\* the current clock tick and with a log that takes every row.
EdgeCall(frame) ==
  /\ ncalls < MaxEdge
  /\ ncalls' = ncalls + 1
  /\ Raises(brain, frame) = "none"
  /\ Finish(frame, Compute(brain, frame, now), now, FALSE)
  /\ UNCHANGED <<logger, nbrains, replayVars, appVars, uiVars, calVars>>

\* The same call when it raises.
EdgeRaise(frame) ==
  /\ ncalls < MaxEdge
  /\ ProcessDataRaise(frame)
  /\ UNCHANGED <<appVars, uiVars, calVars>>

InitEdge ==
  /\ now = 0
  /\ \E d \in EdgeDisplacements : brain = BrainInit(d)
  /\ logger = DataLoggerInit([p \in Paths |-> NoFile], 0).logger
  /\ files = DataLoggerInit([p \in Paths |-> NoFile], 0).files
  /\ produced = <<>>
  /\ nbrains = 1
  /\ ncalls = 0
  /\ writers = [p \in Paths |-> IF p = RunLogPath(0) THEN {1} ELSE {}]
  /\ ReplayerInit
  /\ AppInit("None", FALSE)
  /\ UiInit
  /\ CalInit

NextEdge ==
  \/ \E frame \in EdgeFrames : EdgeCall(frame)
  \/ \E frame \in EdgeFrames : EdgeRaise(frame)

SpecEdge == InitEdge /\ [][NextEdge]_vars

\* C24: for every frame with rpm <= 500, a null rpm among them, the torque of
\* the record the call returns is 0; no division by rpm is made: a frame of
\* rpm 0, null or read, raises no ZeroDivisionError.
C24_TorqueGuard ==
  \A k \in 1..Len(produced) :
    Leq(RpmOf(produced[k].frame), PyInt(500)) =>
      /\ NumEq(RpmOf(produced[k].frame), PyInt(0))
           => produced[k].raised # "ZeroDivisionError"
      /\ produced[k].raised = "none" => NumEq(produced[k].ret[4], PyInt(0))

\* A frame of rpm 500 and one of null rpm, both with air flowing, returned
\* with torque 0.
C24_Witness ==
  /\ Len(produced) = 2
  /\ produced[1].frame.rpm = Reading(Flt(500, 0))
  /\ produced[2].frame.rpm = NullReading
  /\ \A k \in 1..2 :
       /\ produced[k].raised = "none"
       /\ Less(PyInt(0), produced[k].ret[3])
       /\ NumEq(produced[k].ret[4], PyInt(0))

\* C25: for every frame with rpm <= 400, rpm 0 and a null rpm among them, the
\* VE of the record returned is 0 and the division by the theoretical flow is
\* not made: the call raises no ZeroDivisionError, whatever the displacement.
C25_VeGuard ==
  \A k \in 1..Len(produced) :
    Leq(RpmOf(produced[k].frame), PyInt(400)) =>
      /\ produced[k].raised # "ZeroDivisionError"
      /\ produced[k].raised = "none" => NumEq(produced[k].ret[5], PyInt(0))

\* An engine of displacement 0, whose theoretical flow is 0, returned the
\* frames of rpm 400 and of rpm 0 with VE 0.
C25_Witness ==
  /\ brain.displacement = Flt(0, 0)
  /\ Len(produced) = 2
  /\ produced[1].frame.rpm = Reading(Flt(400, 0))
  /\ produced[2].frame.rpm = Reading(Flt(0, 0))
  /\ \A k \in 1..2 :
       /\ produced[k].raised = "none"
       /\ Less(PyInt(0), produced[k].ret[3])
       /\ NumEq(produced[k].ret[5], PyInt(0))


\* The VE of a frame computed with the intake temperature taken as intake.
VeAt(frame, displacement, intake) ==
  Ve(Extract(frame).maf, Extract(frame).rpm,
     TheoreticalFlow(Extract(frame).rpm, displacement, Density(Kelvin(intake))))

\* C26: a call on a frame whose intake-temperature reading is null uses 25
\* for it, in the air density behind the VE as in the temp_in field of the
\* record; every other null reading counts as 0.
C26_IntakeDefault ==
  \A k \in 1..Len(produced) :
    produced[k].raised = "none" /\ produced[k].frame.intake_temp.null =>
      /\ NumEq(produced[k].ret[11], PyInt(25))
      /\ NumEq(produced[k].ret[5], VeAt(produced[k].frame, brain.displacement, PyInt(25)))
      /\ ZeroIfNull(produced[k].frame.rpm, produced[k].ret, 1)
      /\ ZeroIfNull(produced[k].frame.speed, produced[k].ret, 2)
      /\ ZeroIfNull(produced[k].frame.maf, produced[k].ret, 3)
      /\ ZeroIfNull(produced[k].frame.coolant, produced[k].ret, 7)
      /\ ZeroIfNull(produced[k].frame.load, produced[k].ret, 8)


\* ------------------------------------------- replay of incomplete rows

\* Row has no value for column name: the file has no such column, or the row
\* ended before it.
Lacks(row, name) == name \notin DOMAIN row \/ row[name].none

\* Row lacks a field _tick reads, and its other fields are numbers.
Incomplete(row) ==
  /\ \E i \in 1..Len(TickColumns) : Lacks(row, TickColumns[i])
  /\ \A i \in 1..Len(TickColumns) :
       ~Lacks(row, TickColumns[i]) => IsFloatText(row[TickColumns[i]].text)

\* The record of a row with 0, and 25 for temp_in, in place of the fields it
\* lacks.
Defaulted(row) ==
  [i \in 1..Len(TickColumns) |->
     IF Lacks(row, TickColumns[i]) THEN ToFloat(DefaultOf(TickColumns[i]))
     ELSE ParseFloat(row[TickColumns[i]].text)]

\* C27: a tick on a row that lacks a field, the column being absent from the
\* file or the row shorter than the header, raises nothing and delivers the
\* record to the sink with 0 for that field, 25 for temp_in.
C27_MissingFieldDefaults ==
  [][/\ ~died /\ current_frame # Unset /\ current_frame < Len(data)
     /\ Incomplete(data[current_frame + 1])
     /\ died' \/ current_frame' = current_frame + 1
     => ~died' /\ sink' = Append(sink, Defaulted(data[current_frame + 1]))]_vars


\* ------------------------------------------- the derived metrics on their own

\* Speeds, fuel rates and powers of the records calculate_extra_metrics is
\* called with.
ExtraSpeeds == {PyInt(0), Flt(49, 1), PyInt(5), Flt(51, 1), PyInt(6), PyInt(100), PyInt(-10)}

ExtraFuelRates == {PyInt(0), Flt(364, 1), Flt(3309, 3), Flt(-5, 1)}

ExtraPowers == {PyInt(0), Flt(132, 1), Flt(1452, 1), PyInt(300)}

ExtraRecords ==
  { <<Flt(1000, 0), speed, hp, Flt(1035, 0), Flt(5104, 1), fuel_rate, Flt(90, 0),
      Flt(40, 0), Flt(1011, 6), PyInt(0), PyInt(25)>> :
      speed \in ExtraSpeeds, fuel_rate \in ExtraFuelRates, hp \in ExtraPowers }

InitExtra == Init

NextExtra == \E metrics \in ExtraRecords : ExtraCall(metrics)

SpecExtra == InitExtra /\ [][NextExtra]_vars

\* C30: calculate_extra_metrics returns l_100km = fuel_rate / speed * 100 when
\* speed > 5 and fuel_rate > 0 and 0 for every other record; the result is
\* that of the record it is called with, whatever the calls before were.
C30_Mileage ==
  extra.called =>
    IF Less(PyInt(5), extra.metrics[2]) /\ Less(PyInt(0), extra.metrics[6])
    THEN NumEq(extra.ret.l_100km, Mul(Div(extra.metrics[6], extra.metrics[2]), PyInt(100)))
    ELSE NumEq(extra.ret.l_100km, PyInt(0))

\* A call at speed 5 with fuel flowing returned 0.
C30_Witness ==
  /\ extra.called
  /\ NumEq(extra.metrics[2], PyInt(5))
  /\ Less(PyInt(0), extra.metrics[6])
  /\ NumEq(extra.ret.l_100km, PyInt(0))


\* ------------------------------------------- the sink calls

\* The records process_data returned to the worker.
Returned == SelectSeq(produced, LAMBDA c : c.raised = "none")

\* C28: every sink call, for a live, a replayed or a ghost record, passes the
\* 11 numbers of the record in the order of the log's columns, and every
\* record process_data returned to the worker got its one sink call, in order.
C28_SinkCalls ==
  /\ \A k \in 1..Len(sink) : Len(sink[k]) = 11
  /\ \A k \in 1..Len(ghost.sink) : Len(ghost.sink[k]) = 11
  /\ \A k \in 1..Len(live_sink) : Len(live_sink[k].metrics) = 11
  /\ worker # "unpack" =>
       /\ Len(live_sink) = Len(Returned)
       /\ \A k \in 1..Len(live_sink) : live_sink[k].metrics = Returned[k].ret


\* ------------------------------------------- the leaderboard over the runs

\* The elements of xs with the number of times each occurs.
BagOf(xs) ==
  [x \in {xs[i] : i \in 1..Len(xs)} |-> Cardinality({i \in 1..Len(xs) : xs[i] = x})]

\* Board holds the (up to) three smallest of times: what it holds is taken
\* from times, it lacks an element only when it holds three, and every
\* element it lacks is at least as large as each one it holds.
BestOf(times, board) ==
  /\ Len(board) = Min(Len(times), 3)
  /\ BagOf(board) \sqsubseteq BagOf(times)
  /\ \A x \in BagToSet(BagOf(times) (-) BagOf(board)) :
       \A i \in 1..Len(board) : Leq(board[i], x)

\* The time of the run a call ends at clock tick t.
ElapsedAt(br, t) == Div(PyInt(t - br.perf_start_time), PyInt(TicksPerSec))

\* C31: the leaderboard is the (up to) three smallest elapsed times of the
\* runs completed so far.  It starts empty; the call that completes a run
\* leaves the three smallest of the board and the new time, a time being left
\* out only when three at least as good are kept; no other step changes it.
C31_BestThree ==
  [][IF ncalls' = ncalls + 1 /\ brain.perf_running /\ ~brain'.perf_running
     THEN BestOf(Append(brain.leaderboard, ElapsedAt(brain, now')), brain'.leaderboard)
     ELSE brain'.leaderboard = brain.leaderboard]_vars

\* Four runs were completed, two of them in the best time; the board holds
\* these two and one slower time, the fourth having been left out.
C31_Witness ==
  /\ Len(produced) = 8
  /\ ~brain.perf_running
  /\ Len(SelectSeq(produced, LAMBDA c : c.frame = FastFrame)) = 4
  /\ Len(brain.leaderboard) = 3
  /\ NumEq(brain.leaderboard[1], brain.leaderboard[2])
  /\ Less(brain.leaderboard[2], brain.leaderboard[3])


\* ------------------------------------------------------ cumulative fuel

\* The step is a process_data call on a connected source that reached its
\* calculations.
Calculates ==
  /\ Len(produced') = Len(produced) + 1
  /\ LastCall(produced').conn = "up"
  /\ LastCall(produced').raised = "none"

AllRead(frame) ==
  /\ frame.rpm # NullReading /\ frame.speed # NullReading /\ frame.maf # NullReading
  /\ frame.coolant # NullReading /\ frame.load # NullReading
  /\ frame.fuel_trim # NullReading /\ frame.intake_temp # NullReading

\* C34: while the source stays connected, has answered every query with a
\* reading and no stop is requested, each cycle of background_worker ends its
\* process_data call by publishing the new record of eleven numbers to
\* latest_metrics, and the worker never sets the connection to None.
C34_LiveStream ==
  [][(/\ ~stop_thread /\ ~stop_thread'
      /\ is_connected /\ is_connected'
      /\ \A i \in 1..Len(produced') :
           produced'[i].conn = "up" /\ AllRead(produced'[i].frame))
       => /\ connection' = connection
          /\ worker = "query"
               => /\ worker' = "unpack"
                  /\ Len(latest_metrics') = 11
                  /\ latest_metrics' = LastCall(produced').ret]_vars


\* ------------------------------------------------- calls without a source

\* C35: a process_data call made while the source is absent or not connected
\* leaves the engine as it was: cumulative fuel, trim window, fuel map, the
\* state of the timed run, the leaderboard and the log files.
C35_OfflineNoEffect ==
  [][(Len(produced') = Len(produced) + 1 /\ LastCall(produced').conn # "up")
       => /\ brain'.cum_fuel = brain.cum_fuel
          /\ brain'.trim_window = brain.trim_window
          /\ brain'.fuel_map = brain.fuel_map
          /\ brain'.perf_running = brain.perf_running
          /\ brain'.perf_start_time = brain.perf_start_time
          /\ brain'.leaderboard = brain.leaderboard
          /\ files' = files]_vars

\* A call on a connected source started a timed run and logged a row; the call
\* after it found no connected source, and the engine still holds what the
\* first call left.
C35_Witness ==
  /\ Len(produced) = 2
  /\ produced[1].conn = "up" /\ produced[1].wrote
  /\ produced[2].conn # "up"
  /\ brain.perf_running
  /\ Less(PyInt(0), brain.cum_fuel)
  /\ Len(brain.trim_window) = 1
  /\ Len(files[logger.filepath].rows) = 1


\* ------------------------------------------------ the edges of the fuel map

\* The longest session of calls at the edges of the map.
MaxMap == 2

\* Frames below, inside and beyond the bin edges of rpm and load.
MapFrames ==
  { [SteadyFrame EXCEPT !.rpm = Reading(rpm), !.load = Reading(load)] :
      rpm \in {Flt(-1, 0), Flt(1000, 0), Flt(7500, 0), Flt(8000, 0)},
      load \in {Flt(-5, 0), Flt(40, 0), Flt(100, 0), Flt(120, 0)} }

\* process_data(connection) on a connected source that answers frame.
MapCall(frame) ==
  /\ ncalls < MaxMap
  /\ ncalls' = ncalls + 1
  /\ Raises(brain, frame) = "none"
  /\ Finish(frame, Compute(brain, frame, now), now, FALSE)
  /\ UNCHANGED <<logger, nbrains, replayVars, appVars, uiVars, calVars>>

InitMap == Init

NextMap == \E frame \in MapFrames : MapCall(frame)

SpecMap == InitMap /\ [][NextMap]_vars

\* The cells of the map whose value differs between fuel maps fm and gm.
Changed(fm, gm) ==
  {c \in (DOMAIN fm) \cup (DOMAIN gm) :
     FuelMapAt(fm, c[1], c[2]) # FuelMapAt(gm, c[1], c[2])}

\* C36: a process_data call changes at most one fuel-map cell, and the cells
\* written are inside the map of 21 x 31; a frame with negative rpm or
\* negative load writes no cell; any other frame writes its fuel rate to one
\* cell, in the last rpm bin (30) when rpm >= 7500 and in the last load bin
\* (20) when load >= 100.
C36_OneCellInsideMap ==
  [][Calculates
       => /\ Cardinality(Changed(brain.fuel_map, brain'.fuel_map)) <= 1
          /\ DOMAIN brain'.fuel_map \subseteq
               (0..(LoadBins - 1)) \X (0..(RpmBins - 1))
          /\ IF \/ Less(RpmOf(LastCall(produced').frame), PyInt(0))
                \/ Less(LoadOf(LastCall(produced').frame), PyInt(0))
             THEN brain'.fuel_map = brain.fuel_map
             ELSE \E l \in 0..(LoadBins - 1), r \in 0..(RpmBins - 1) :
                    /\ DOMAIN brain'.fuel_map = (DOMAIN brain.fuel_map) \cup {<<l, r>>}
                    /\ brain'.fuel_map[<<l, r>>] = LastCall(produced').ret[6]
                    /\ Leq(PyInt(7500), RpmOf(LastCall(produced').frame)) => r = 30
                    /\ Leq(PyInt(100), LoadOf(LastCall(produced').frame)) => l = 20]_vars

\* A frame with negative rpm wrote no cell, and the frame after it, beyond the
\* last edge of both rpm and load, wrote the last cell of the map.
C36_Witness ==
  /\ Len(produced) = 2
  /\ Less(RpmOf(produced[1].frame), PyInt(0))
  /\ RpmOf(produced[2].frame) = Flt(8000, 0)
  /\ LoadOf(produced[2].frame) = Flt(120, 0)
  /\ DOMAIN brain.fuel_map = {<<20, 30>>}
  /\ brain.fuel_map[<<20, 30>>] = produced[2].ret[6]


\* ------------------------------------------------- the timed run, step by step

\* The longest session of the timer.
MaxTimer == 5

\* The vehicle at rest.
StopFrame == [BandFrame EXCEPT !.speed = Reading(Flt(0, 0))]

\* process_data(connection) on a connected source that answers frame; the
\* clock may tick during any call.
TimerCall(frame) ==
  /\ ncalls < MaxTimer
  /\ ncalls' = ncalls + 1
  /\ Raises(brain, frame) = "none"
  /\ \E t \in now..Min(now + 1, MaxNow) :
       Finish(frame, Compute(brain, frame, t), t, FALSE)
  /\ UNCHANGED <<logger, nbrains, replayVars, appVars, uiVars, calVars>>

InitTimer == Init

NextTimer == \E frame \in {BandFrame, FastFrame, StopFrame} : TimerCall(frame)

SpecTimer == InitTimer /\ [][NextTimer]_vars

\* The speed read by the last of calls.
LastSpeed(calls) == ValueOr(LastCall(calls).frame.speed, PyInt(0))

\* C37: a run in progress has its start time set; during a run a frame below
\* speed 100, in the band 2-8 or at rest, leaves the run in progress with its
\* start time and the leaderboard as they were; the run ends only on a frame
\* with speed >= 100, which adds the one elapsed time to the leaderboard
\* before the cap of three; without a run in progress a call starts one
\* exactly on a frame in the band and leaves the leaderboard alone.
C37_TimerStateMachine ==
  /\ [](brain.perf_running => brain.perf_start_time # NoTime)
  /\ [][Calculates
          => IF brain.perf_running
             THEN IF Leq(PyInt(100), LastSpeed(produced'))
                  THEN /\ ~brain'.perf_running
                       /\ Len(brain'.leaderboard) = Min(Len(brain.leaderboard) + 1, 3)
                       /\ BagOf(brain'.leaderboard) \sqsubseteq
                            BagOf(Append(brain.leaderboard, ElapsedAt(brain, now')))
                  ELSE /\ brain'.perf_running
                       /\ brain'.perf_start_time = brain.perf_start_time
                       /\ brain'.leaderboard = brain.leaderboard
             ELSE /\ brain'.leaderboard = brain.leaderboard
                  /\ brain'.perf_running
                       <=> (Less(PyInt(2), LastSpeed(produced'))
                              /\ Less(LastSpeed(produced'), PyInt(8)))
                  /\ brain'.perf_running => brain'.perf_start_time = now']_vars

\* A run started at tick 0 went on through a second frame in the band and a
\* frame at rest, the clock ticking each time, and ended on the fourth frame:
\* its time is the 1.5 s since the first frame.
C37_Witness ==
  /\ Len(produced) = 4
  /\ produced[1].frame = BandFrame /\ produced[2].frame = BandFrame
  /\ produced[3].frame = StopFrame /\ produced[4].frame = FastFrame
  /\ now = 3
  /\ ~brain.perf_running
  /\ brain.perf_start_time = 0
  /\ brain.leaderboard = <<Flt(15, 1)>>

====
